---- MODULE Spec2Model ----
(***************************************************************************)
(* Theme cache and relatedness engine of obsidian-diary-mcp                *)
(* (src/src/obsidian_diary_mcp/analysis.py, entry_manager.py).             *)
(*                                                                         *)
(* Requests are asyncio tasks on one event loop: a task runs without       *)
(* interruption until it awaits the generation backend (the only point at  *)
(* which it suspends; file reads are blocking calls).  `running` is the    *)
(* task that holds the loop, NoTask when the loop is free.                 *)
(***************************************************************************)
EXTENDS Integers, Sequences, FiniteSets, TLC

----------------------------------------------------------------------------
(* Bounds of the model *)

NumTasks == 2
MaxRequests == 2
MaxEdits == 1
\* comma-separated pieces of a backend response
MaxPieces == 7
\* lines of a backend response to generate_reflection_prompts
MaxLines == 3
\* str hashes are reduced modulo HashSpace (CPython: 64-bit values)
HashSpace == 2

(* Constants of the program *)

PrefixLen == 100
MinAnalysisLen == 20
MinBrainDumpLen == 50
\* len("*Your thoughts, experiences, and observations...*")
PlaceholderLen == 49
MaxThemes == 5
\* similarity > 0.08, kept as the fraction ThresholdNum / ThresholdDen
ThresholdNum == 8
ThresholdDen == 100
DefaultMaxRelated == 6

Tasks == 1..NumTasks
NoTask == NumTasks + 1
None == "None"

----------------------------------------------------------------------------
(* Entry texts.  A text is described by what the code looks at:            *)
(*   len    len(content)                                                   *)
(*   prefix the characters content[:100], as a number                      *)
(*   tail   the characters content[100:], as a number (0 when there are    *)
(*          none)                                                          *)
(*   header the header of the Brain Dump section: "none", "plain"          *)
(*          (## Brain Dump), "thought" (the thought balloon of the regular *)
(*          expression of _extract_brain_dump), "brain" (the brain of      *)
(*          template_generator.py:101)                                     *)
(*   brain  length of the stripped text under that header up to the next   *)
(*          header, whitespace next to the placeholder not counted         *)
(*   placeholder  that text holds the placeholder of the template          *)
(*   mem    the Memory Links sections the tools of server.py appended,     *)
(*          oldest first; len counts them, tail does not                   *)
(*   links  length of the trailing links section the two re.sub remove     *)
(*   pad    leading and trailing whitespace of what remains                *)
(*   err    the text starts with "Error reading file"                      *)

Text(l, p, tl, b, lk, pd) ==
    [len |-> l, prefix |-> p, tail |-> tl, brain |-> b, links |-> lk, pad |-> pd,
     err |-> FALSE, header |-> IF b > 0 THEN "thought" ELSE "none",
     placeholder |-> FALSE, mem |-> <<>>]

ShortText == Text(12, 1, 0, 0, 0, 0)
BlankText == Text(40, 2, 0, 0, 18, 9)
LongA     == Text(150, 3, 1, 0, 0, 0)
\* LongA edited after its 100th character, same length
LongA2    == Text(150, 3, 2, 0, 0, 0)
\* differs from LongA within the first 100 characters
LongB     == Text(150, 5, 1, 0, 0, 0)
LongC     == Text(150, 4, 1, 60, 0, 0)
\* LongA with one character appended
LongD     == Text(151, 3, 3, 0, 0, 0)

\* content[100:] is empty in a text of at most 100 characters
WellFormed(c) == c.len <= PrefixLen => c.tail = 0

Contents ==
    {c \in {ShortText, BlankText, LongA, LongA2, LongB, LongC, LongD} : WellFormed(c)}

\* hash(content[:100])
Hash(p) == p % HashSpace

\* the key without the length of the text
CacheKeyNoLen(content, file_stem) ==
    file_stem \o "_" \o ToString(Hash(content.prefix))

\* the key without the identifier
CacheKeyNoStem(content, file_stem) ==
    ToString(content.len) \o "_" \o ToString(Hash(content.prefix))

\* cache_key = f"{file_stem}_{len(content)}_{hash(content[:100])}"
CacheKey(content, file_stem) ==
    file_stem \o "_" \o ToString(content.len) \o "_" \o ToString(Hash(content.prefix))

\* r'##\s*(?:<thought balloon>\s*)?Brain Dump\s*\n+(.*?)(?=\n##|\Z)' finds the
\* section under this header
HeaderMatches(header) == header \in {"plain", "thought"}

\* len(self._extract_brain_dump(content))
ExtractBrainDump(content) ==
    IF ~HeaderMatches(content.header) THEN 0
    ELSE IF content.placeholder THEN content.brain - PlaceholderLen
    ELSE content.brain

\* the length of the text as given: nothing removed, nothing stripped
AnalysisLenUnstripped(content) == content.len

\* len(analysis_content.strip()) in extract_themes_and_topics
AnalysisLen(content) ==
    IF ExtractBrainDump(content) > MinBrainDumpLen
    THEN ExtractBrainDump(content)
    ELSE content.len - content.links - content.pad

\* len(content_without_links.strip()) in extract_themes_and_topics of
\* server.py (lines 74-78): no Brain Dump, and a Memory Links section stays
ServerAnalysisLen(content) == content.len - content.links - content.pad

\* analysis_content of extract_themes_and_topics (lines 41-55): what the
\* prompt holds of the entry, and how long it is
AnalysisContent(content) ==
    IF ExtractBrainDump(content) > MinBrainDumpLen
    THEN [part |-> "brain dump", len |-> ExtractBrainDump(content)]
    ELSE [part |-> "entry without links", len |-> content.len - content.links]

----------------------------------------------------------------------------
(* Parsing of the backend response, a sequence of characters *)

IsSpace(ch) == ch \in {" ", "\n"}

Lower(ch) ==
    CASE ch = "A" -> "a"
      [] ch = "B" -> "b"
      [] OTHER -> ch

RECURSIVE LStrip(_)
LStrip(s) == IF s # <<>> /\ IsSpace(Head(s)) THEN LStrip(Tail(s)) ELSE s

RECURSIVE RStrip(_)
RStrip(s) ==
    IF s # <<>> /\ IsSpace(s[Len(s)]) THEN RStrip(SubSeq(s, 1, Len(s) - 1)) ELSE s

Strip(s) == RStrip(LStrip(s))

\* str.split(","): the pieces between commas, empty pieces included
RECURSIVE Split(_, _)
Split(s, piece) ==
    IF s = <<>> THEN <<piece>>
    ELSE IF Head(s) = "," THEN <<piece>> \o Split(Tail(s), <<>>)
    ELSE Split(Tail(s), Append(piece, Head(s)))

RECURSIVE Join(_)
Join(chars) == IF chars = <<>> THEN "" ELSE Lower(Head(chars)) \o Join(Tail(chars))

RECURSIVE NonEmptyTokens(_)
NonEmptyTokens(pieces) ==
    IF pieces = <<>> THEN <<>>
    ELSE IF Strip(Head(pieces)) # <<>>
         THEN <<Join(Strip(Head(pieces)))>> \o NonEmptyTokens(Tail(pieces))
         ELSE NonEmptyTokens(Tail(pieces))

\* themes[:n + 1]
TakeOneMore(s, n) == SubSeq(s, 1, IF n + 1 < Len(s) THEN n + 1 ELSE Len(s))

Take(s, n) == SubSeq(s, 1, IF n < Len(s) THEN n ELSE Len(s))

\* themes = [t.strip().lower() for t in response_text.strip().split(",") if t.strip()][:5]
ParseThemes(response_text) ==
    Take(NonEmptyTokens(Split(Strip(response_text), <<>>)), MaxThemes)

\* "job, anxiety, interview"
JobResponse ==
    <<"j", "o", "b", ",", " ", "a", "n", "x", "i", "e", "t", "y", ",", " ",
      "i", "n", "t", "e", "r", "v", "i", "e", "w">>

\* the answers the backend may give for a text: it need not answer the same
\* text twice alike
Answers(content) ==
    CASE content.prefix = 3 /\ content.tail = 1 -> { <<"a", ",", " ", "B">> }
      [] content.prefix = 3 /\ content.tail # 1 -> { <<"a">> }
      [] content.prefix = 4 -> { <<"a", ",", "b", ",", "c">>, <<"a", " ">> }
      [] content.prefix = 5 -> { <<"d", ",", ",">> }
      [] content.prefix \in {8, 9} -> { JobResponse }
      [] OTHER -> { <<" ">> }

Range(s) == {s[i] : i \in 1..Len(s)}

----------------------------------------------------------------------------
(* The entry store *)

Stems == {"2024-01-01", "2024-01-02", "2024-1-2"}

\* datetime.strptime(stem, "%Y-%m-%d"), as a day number; "2024-1-2" parses
\* to the same date as "2024-01-02"
DateOf(stem) ==
    CASE stem = "2024-01-01" -> 1
      [] stem = "2024-01-02" -> 2
      [] stem = "2024-1-2" -> 2

Absent == [kind |-> "absent", content |-> ShortText]
Unreadable == [kind |-> "oserror", content |-> ShortText]
\* a file whose bytes are not UTF-8
Undecodable == [kind |-> "undecodable", content |-> ShortText]
TextFile(c) == [kind |-> "text", content |-> c]

\* f"Error reading file: {e}"
ErrorText == [Text(40, 9, 0, 0, 0, 0) EXCEPT !.err = TRUE]

\* read_entry: the text of the file, or the error text on OSError
\* (FileNotFoundError and PermissionError are OSErrors)
ReadEntry(file) == IF file.kind = "text" THEN file.content ELSE ErrorText

\* f.read() raises UnicodeDecodeError, a ValueError: no except clause of
\* read_entry catches it
ReadRaises(file) == file.kind = "undecodable"

\* entry_content.startswith("Error reading file")
StartsWithError(text) == text.err

\* sorted(entries, key=date, reverse=True): stable, newest first
RECURSIVE InsertByDate(_, _)
InsertByDate(sorted, stem) ==
    IF sorted = <<>> THEN <<stem>>
    ELSE IF DateOf(Head(sorted)) >= DateOf(stem)
         THEN <<Head(sorted)>> \o InsertByDate(Tail(sorted), stem)
         ELSE <<stem>> \o sorted

RECURSIVE SortByDate(_, _)
SortByDate(todo, sorted) ==
    IF todo = <<>> THEN sorted
    ELSE SortByDate(Tail(todo), InsertByDate(sorted, Head(todo)))

\* get_all_entries: the files of the directory, in glob order, sorted by date
GetAllEntries(fs, order) ==
    SortByDate(SelectSeq(order, LAMBDA st : fs[st].kind # "absent"), <<>>)

----------------------------------------------------------------------------
(* Ranking *)

\* the intersection measured against the current themes alone
SimilarityOverCurrent(a, b) ==
    [num |-> Cardinality(a \cap b), den |-> Cardinality(a)]

\* len(current_themes & entry_themes) / len(current_themes | entry_themes),
\* kept as the fraction num / den
Similarity(a, b) ==
    [num |-> Cardinality(a \cap b), den |-> Cardinality(a \cup b)]

\* no threshold: any similarity is kept
AboveZeroOrEqual(num, den) == num * ThresholdDen >= 0

\* similarity > 0.125
AboveOneEighth(num, den) == num * 8 > den

\* similarity > 0.08
AboveThreshold(num, den) == num * ThresholdDen > ThresholdNum * den

\* a.similarity > b.similarity: equal keys change places
SimGreater(a, b) == a.num * b.den > b.num * a.den

\* a.similarity >= b.similarity
SimGeq(a, b) == a.num * b.den >= b.num * a.den

\* similarity_scores.sort(reverse=True, key=lambda x: x[0]): stable
RECURSIVE InsertBySim(_, _)
InsertBySim(sorted, sc) ==
    IF sorted = <<>> THEN <<sc>>
    ELSE IF SimGeq(Head(sorted), sc)
         THEN <<Head(sorted)>> \o InsertBySim(Tail(sorted), sc)
         ELSE <<sc>> \o sorted

RECURSIVE SortBySim(_, _)
SortBySim(todo, sorted) ==
    IF todo = <<>> THEN sorted
    ELSE SortBySim(Tail(todo), InsertBySim(sorted, Head(todo)))

Max(a, b) == IF a > b THEN a ELSE b
Min(a, b) == IF a < b THEN a ELSE b

\* the slice left out
SliceAll(s, k) == s

\* s[:k + 1]
SliceInclusive(s, k) ==
    IF k + 1 >= 0 THEN SubSeq(s, 1, Min(k + 1, Len(s)))
    ELSE SubSeq(s, 1, Max(Len(s) + k + 1, 0))

\* s[:k] of a Python list
Slice(s, k) ==
    IF k >= 0 THEN SubSeq(s, 1, Min(k, Len(s)))
    ELSE SubSeq(s, 1, Max(Len(s) + k, 0))

\* the name of the file in the link
BacklinkOfFile(stem) == "[[" \o stem \o ".md]]"

\* f"[[{stem}]]"
Backlink(stem) == "[[" \o stem \o "]]"

Backlinks(scores) == [i \in 1..Len(scores) |-> Backlink(scores[i].stem)]

\* exclude_date as a condition: None and "" are false
Truthy(x) == x # None /\ x # ""

----------------------------------------------------------------------------
(* State *)

VARIABLES
    files,        \* the diary directory: stem -> file
    globOrder,    \* the order in which glob("*.md") lists the directory
    cache,        \* _theme_cache: cache key -> list of themes
    tk,           \* the requests: task -> its local variables
    running,      \* the task that holds the event loop
    cacheSrc,     \* history: cache key -> the text and identifier its themes were
                  \* computed for
    extractCount, \* history: cache key -> calls of extract_themes_and_topics
    prev, last,   \* history: the last two completed calls of get_themes_cached
    emptied,      \* history: <<text, identifier>> for which a call returned no theme
    started,      \* requests started
    edits,        \* files edited
    genCalls,     \* history: <<entry, text>> -> theme extractions sent to the
                  \* backend by the tools of server.py
    fn            \* a function of the program applied on its own: its
                  \* arguments and, once applied, its result

vars == <<files, globOrder, cache, tk, running, cacheSrc, extractCount,
          prev, last, emptied, started, edits, genCalls, fn>>

\* what the analysis engine does not touch
ext == <<genCalls, fn>>

Ids == Stems \cup {"current"}

\* the arguments requests are made with
CallerIds == {"current", "2024-01-02"}
CurrentTexts == {ShortText, LongA}
ExcludeDates == {None, "2024-01-02"}
MaxRelatedValues == {-1, 1, DefaultMaxRelated}
EditTexts == {LongA2}
EditStems == {"2024-01-02"}

\* the directories a run starts from
Corpora ==
    { [st \in Stems |-> CASE st = "2024-01-01" -> TextFile(LongA)
                          [] st = "2024-01-02" -> TextFile(LongC)
                          [] st = "2024-1-2" -> TextFile(LongD)],
      [st \in Stems |-> CASE st = "2024-01-01" -> Unreadable
                          [] st = "2024-01-02" -> TextFile(LongA)
                          [] st = "2024-1-2" -> TextFile(LongB)],
      [st \in Stems |-> CASE st = "2024-01-01" -> TextFile(ShortText)
                          [] st = "2024-01-02" -> TextFile(LongA)
                          [] st = "2024-1-2" -> Absent] }

AllKeys == {CacheKey(c, id) : c \in Contents, id \in Ids}

\* the request is not a tool of server.py
NoTool == [name |-> "none", step |-> "none"]

IdleTask ==
    [pc |-> "idle", op |-> "none", exclude |-> None,
     max |-> 0, pendC |-> ShortText, pendId |-> "", stage |-> "none",
     cur |-> {}, entries |-> <<>>, idx |-> 0, scores |-> <<>>, sims |-> <<>>,
     result |-> <<>>, reads |-> <<>>, cands |-> <<>>,
     enums |-> 0, gens |-> 0, count |-> 0, error |-> "", cause |-> "",
     tool |-> NoTool]

Source(c, file_stem) == [content |-> c, id |-> file_stem]

NoCall ==
    [valid |-> FALSE, content |-> ShortText, id |-> "", key |-> "", themes |-> <<>>,
     hit |-> FALSE, src |-> Source(ShortText, ""), gens |-> 0, wasEmpty |-> FALSE]

Orders ==
    { <<"2024-01-01", "2024-01-02", "2024-1-2">>,
      <<"2024-1-2", "2024-01-02", "2024-01-01">> }

\* no function applied on its own
NoFn == [op |-> "none"]

\* no extraction sent yet
NoGenCalls == [k \in {} |-> 0]

InitEngine ==
    /\ files \in Corpora
    /\ globOrder \in Orders
    \* the listing order shows only where two stems carry the same date
    /\ files["2024-1-2"].kind = "absent" => globOrder[1] = "2024-01-01"
    /\ cache = [k \in {} |-> <<>>]
    /\ cacheSrc = [k \in {} |-> Source(ShortText, "")]
    /\ tk = [t \in Tasks |-> IdleTask]
    /\ running = NoTask
    /\ extractCount = [k \in AllKeys |-> 0]
    /\ prev = [valid |-> FALSE, content |-> ShortText, id |-> "", themes |-> <<>>,
               gens |-> 0]
    /\ last = NoCall
    /\ emptied = {}
    /\ started = 0
    /\ edits = 0

Init ==
    /\ InitEngine
    /\ genCalls = NoGenCalls
    /\ fn = NoFn

\* the cached list taken as the condition: an empty list counts as absent
InCacheNonEmpty(c, k) == k \in DOMAIN c /\ c[k] # <<>>

\* cache_key in self._theme_cache
InCache(c, k) == k \in DOMAIN c

\* the file name, not the stem, compared with exclude_date
ExcludedByName(exclude_date, stem) == Truthy(exclude_date) /\ stem \o ".md" = exclude_date

\* if exclude_date and file_path.stem == exclude_date
Excluded(exclude_date, stem) == Truthy(exclude_date) /\ stem = exclude_date

\* the assignment left out
StoreNothing(f, k, v) == f

\* only a non-empty list is stored
StoreNonEmpty(f, k, v) ==
    IF v = <<>> THEN f ELSE [x \in DOMAIN f \cup {k} |-> IF x = k THEN v ELSE f[x]]

\* self._theme_cache[cache_key] = themes
Store(f, k, v) == [x \in DOMAIN f \cup {k} |-> IF x = k THEN v ELSE f[x]]

\* one more call counted for k
Bump(f, k) ==
    IF k \in DOMAIN f THEN [f EXCEPT ![k] = @ + 1] ELSE f @@ (k :> 1)

----------------------------------------------------------------------------
(* What a request does with the themes get_themes_cached returned to it *)

\* the scan entered whatever the current themes
AfterCurrentAlwaysScan(r, themes) ==
    [r EXCEPT !.pc = "scan", !.stage = "candidate", !.cur = Range(themes),
              !.entries = GetAllEntries(files, globOrder),
              !.enums = @ + 1, !.idx = 1]

\* the loop started at the second entry of the enumeration
AfterCurrentFromSecond(r, themes) ==
    IF Range(themes) = {}
    THEN [r EXCEPT !.pc = "done", !.cur = {}, !.result = <<>>]
    ELSE [r EXCEPT !.pc = "scan", !.stage = "candidate", !.cur = Range(themes),
                   !.entries = GetAllEntries(files, globOrder),
                   !.enums = @ + 1, !.idx = 2]

\* find_related_entries, from the return of the call for the current text
\* (line 128) to the start of the loop
AfterCurrent(r, themes) ==
    IF Range(themes) = {}
    THEN [r EXCEPT !.pc = "done", !.cur = {}, !.result = <<>>]
    ELSE [r EXCEPT !.pc = "scan", !.stage = "candidate", !.cur = Range(themes),
                   !.entries = GetAllEntries(files, globOrder),
                   !.enums = @ + 1, !.idx = 1]

\* the similarity computed whether or not the candidate has themes
AfterCandidateNoGuard(r, themes) ==
    LET entry_themes == Range(themes)
        similarity == Similarity(r.cur, entry_themes)
        sc == [num |-> similarity.num, den |-> similarity.den,
               stem |-> r.entries[r.idx]]
    IN  [r EXCEPT !.pc = "scan", !.idx = @ + 1,
                  !.sims = Append(@, sc),
                  !.scores = IF AboveThreshold(sc.num, sc.den)
                             THEN Append(@, sc) ELSE @]

\* find_related_entries, loop body from the return of the call for a
\* candidate (line 151) to the end of the iteration
AfterCandidate(r, themes) ==
    LET entry_themes == Range(themes)
        similarity == Similarity(r.cur, entry_themes)
        sc == [num |-> similarity.num, den |-> similarity.den,
               stem |-> r.entries[r.idx]]
    IN  IF entry_themes # {}
        THEN [r EXCEPT !.pc = "scan", !.idx = @ + 1,
                       !.sims = Append(@, sc),
                       !.scores = IF AboveThreshold(sc.num, sc.den)
                                  THEN Append(@, sc) ELSE @]
        ELSE [r EXCEPT !.pc = "scan", !.idx = @ + 1]

After(r, themes) ==
    IF r.op = "get" THEN [r EXCEPT !.pc = "done", !.result = themes]
    ELSE IF r.stage = "current" THEN AfterCurrent(r, themes)
    ELSE AfterCandidate(r, themes)

\* the task keeps the event loop unless its request has returned
Holder(t, r) == IF r.pc = "done" THEN NoTask ELSE t

CallRecord(r, themes, wasHit, source) ==
    [valid |-> TRUE, content |-> r.pendC, id |-> r.pendId,
     key |-> CacheKey(r.pendC, r.pendId), themes |-> themes, hit |-> wasHit,
     src |-> source, gens |-> IF r.pc = "await" THEN 1 ELSE 0,
     wasEmpty |-> <<r.pendC, r.pendId>> \in emptied]

\* a call of get_themes_cached returns `themes` to task t
Returned(t, themes, wasHit, source) ==
    /\ tk' = [tk EXCEPT ![t] = After(tk[t], themes)]
    /\ running' = Holder(t, After(tk[t], themes))
    /\ prev' = [valid |-> last.valid, content |-> last.content, id |-> last.id,
                themes |-> last.themes, gens |-> last.gens]
    /\ last' = CallRecord(tk[t], themes, wasHit, source)
    /\ emptied' = IF themes = <<>>
                  THEN emptied \cup {<<tk[t].pendC, tk[t].pendId>>}
                  ELSE emptied

----------------------------------------------------------------------------
(* Actions *)

\* a task is free before its first request and once its request has returned
\* or raised; a tool goes on after its call of find_related_entries has
\* returned, and refresh_recent_backlinks also after it has raised
InFlight(t) ==
    \/ tk[t].pc \notin {"idle", "done", "raised"}
    \/ tk[t].pc = "done" /\ tk[t].tool.step \notin {"none", "returned"}
    \/ tk[t].pc = "raised" /\ tk[t].tool.name = "refresh"
          /\ tk[t].tool.step # "returned"

\* a new request may start when the event loop is free; with solo, only
\* when no other request is in flight (a single caller at a time)
CanStart(t, solo) ==
    /\ running = NoTask
    /\ ~InFlight(t)
    /\ started < MaxRequests
    /\ \A u \in Tasks : u < t => InFlight(u)
    /\ solo => \A u \in Tasks : ~InFlight(u)

\* a caller awaits get_themes_cached(content, file_stem)
StartGetThemes(t, content, file_stem, solo) ==
    /\ CanStart(t, solo)
    /\ tk' = [tk EXCEPT ![t] = [IdleTask EXCEPT !.pc = "lookup", !.op = "get",
                                  !.pendC = content, !.pendId = file_stem]]
    /\ running' = t
    /\ started' = started + 1
    /\ UNCHANGED <<files, globOrder, cache, cacheSrc, extractCount, prev, last,
                   emptied, edits>>

\* the themes of the current text always asked for under the name "current"
StartFindRelatedAsCurrent(t, current_content, exclude_date, max_related, solo) ==
    /\ CanStart(t, solo)
    /\ tk' = [tk EXCEPT ![t] = [IdleTask EXCEPT !.pc = "lookup", !.op = "find",
                                  !.stage = "current",
                                  !.exclude = exclude_date, !.max = max_related,
                                  !.pendC = current_content,
                                  !.pendId = "current"]]
    /\ running' = t
    /\ started' = started + 1
    /\ UNCHANGED <<files, globOrder, cache, cacheSrc, extractCount, prev, last,
                   emptied, edits>>

\* a caller awaits find_related_entries(current_content, exclude_date, max_related)
StartFindRelated(t, current_content, exclude_date, max_related, solo) ==
    /\ CanStart(t, solo)
    /\ tk' = [tk EXCEPT ![t] = [IdleTask EXCEPT !.pc = "lookup", !.op = "find",
                                  !.stage = "current",
                                  !.exclude = exclude_date, !.max = max_related,
                                  !.pendC = current_content,
                                  !.pendId = IF Truthy(exclude_date)
                                             THEN exclude_date ELSE "current"]]
    /\ running' = t
    /\ started' = started + 1
    /\ UNCHANGED <<files, globOrder, cache, cacheSrc, extractCount, prev, last,
                   emptied, edits>>

\* get_themes_cached up to its return or to the await of the backend;
\* analysisLen is len(analysis_content.strip()) of the extractor called
LookupWith(t, analysisLen) ==
    /\ running = t
    /\ tk[t].pc = "lookup"
    /\ LET c == tk[t].pendC
           cache_key == CacheKey(c, tk[t].pendId)
       IN  IF InCache(cache, cache_key)
           THEN /\ Returned(t, cache[cache_key], TRUE, cacheSrc[cache_key])
                /\ UNCHANGED <<cache, cacheSrc, extractCount>>
           ELSE /\ extractCount' = Bump(extractCount, cache_key)
                /\ IF analysisLen < MinAnalysisLen
                   THEN /\ cache' = Store(cache, cache_key, <<>>)
                        /\ cacheSrc' = Store(cacheSrc, cache_key, Source(c, tk[t].pendId))
                        /\ Returned(t, <<>>, FALSE, Source(c, tk[t].pendId))
                   ELSE /\ tk' = [tk EXCEPT ![t].pc = "await", ![t].gens = @ + 1]
                        /\ running' = NoTask
                        /\ UNCHANGED <<cache, cacheSrc, prev, last, emptied>>
    /\ UNCHANGED <<files, globOrder, started, edits>>

\* get_themes_cached of analysis.py
Lookup(t) == LookupWith(t, AnalysisLen(tk[t].pendC))

\* the backend answers: the rest of extract_themes_and_topics and of
\* get_themes_cached
BackendReturn(t, response_text) ==
    /\ running = NoTask
    /\ tk[t].pc = "await"
    /\ LET c == tk[t].pendC
           cache_key == CacheKey(c, tk[t].pendId)
           themes == ParseThemes(response_text)
       IN  /\ cache' = Store(cache, cache_key, themes)
           /\ cacheSrc' = Store(cacheSrc, cache_key, Source(c, tk[t].pendId))
           /\ Returned(t, themes, FALSE, Source(c, tk[t].pendId))
    /\ UNCHANGED <<files, globOrder, extractCount, started, edits>>

\* ollama_client.generate raises: extract_themes_and_topics returns []
BackendFail(t) ==
    /\ running = NoTask
    /\ tk[t].pc = "await"
    /\ LET c == tk[t].pendC
           cache_key == CacheKey(c, tk[t].pendId)
       IN  /\ cache' = Store(cache, cache_key, <<>>)
           /\ cacheSrc' = Store(cacheSrc, cache_key, Source(c, tk[t].pendId))
           /\ Returned(t, <<>>, FALSE, Source(c, tk[t].pendId))
    /\ UNCHANGED <<files, globOrder, extractCount, started, edits>>

\* find_related_entries: one iteration of the loop up to the call of
\* get_themes_cached, or the code after the loop
Scan(t) ==
    /\ running = t
    /\ tk[t].pc = "scan"
    /\ LET r == tk[t] IN
       IF r.idx > Len(r.entries)
       THEN LET sorted == SortBySim(r.scores, <<>>) IN
            /\ tk' = [tk EXCEPT ![t] = [r EXCEPT !.pc = "done", !.scores = sorted,
                                          !.result = Backlinks(Slice(sorted, r.max))]]
            /\ running' = NoTask
       ELSE LET stem == r.entries[r.idx]
                entry_content == ReadEntry(files[stem])
            IN  /\ running' = IF ~Excluded(r.exclude, stem) /\ ReadRaises(files[stem])
                               THEN NoTask ELSE t
                /\ IF Excluded(r.exclude, stem)
                   THEN tk' = [tk EXCEPT ![t].idx = @ + 1]
                   ELSE IF ReadRaises(files[stem])
                   THEN tk' = [tk EXCEPT ![t].pc = "raised",
                                         ![t].error = "UnicodeDecodeError",
                                         ![t].cause = "storage",
                                         ![t].reads = Append(@, stem)]
                   ELSE IF StartsWithError(entry_content)
                   THEN tk' = [tk EXCEPT ![t].idx = @ + 1,
                                         ![t].reads = Append(@, stem)]
                   ELSE tk' = [tk EXCEPT ![t].pc = "lookup",
                                         ![t].reads = Append(@, stem),
                                         ![t].cands = Append(@, stem),
                                         ![t].pendC = entry_content,
                                         ![t].pendId = stem]
    /\ UNCHANGED <<files, globOrder, cache, cacheSrc, extractCount, prev, last,
                   emptied, started, edits>>

\* an entry file is rewritten (write_entry, or the user's editor)
EditEntry(stem, content) ==
    /\ edits < MaxEdits
    /\ running = NoTask
    /\ files[stem].kind = "text"
    /\ files[stem].content # content
    /\ files' = [files EXCEPT ![stem] = TextFile(content)]
    /\ edits' = edits + 1
    /\ UNCHANGED <<globOrder, cache, cacheSrc, tk, running, extractCount,
                   prev, last, emptied, started>>

\* requests are made with texts of `texts` and limits of `limits`
Step(solo, texts, limits) ==
    \/ \E t \in Tasks :
          /\ CanStart(t, solo)
          /\ \E c \in texts, id \in CallerIds :
                StartGetThemes(t, c, id, solo) /\ UNCHANGED ext
    \/ \E t \in Tasks :
          /\ CanStart(t, solo)
          /\ \E c \in CurrentTexts \cap texts, e \in ExcludeDates, m \in limits :
                StartFindRelated(t, c, e, m, solo) /\ UNCHANGED ext
    \/ \E t \in Tasks : Lookup(t) /\ UNCHANGED ext
    \/ \E t \in Tasks : \E resp \in Answers(tk[t].pendC) :
          BackendReturn(t, resp) /\ UNCHANGED ext
    \/ \E t \in Tasks : BackendFail(t) /\ UNCHANGED ext
    \/ \E t \in Tasks : Scan(t) /\ UNCHANGED ext
    \/ \E st \in EditStems, c \in EditTexts : EditEntry(st, c) /\ UNCHANGED ext

\* a single caller at a time: a request starts when the one before has
\* returned
Next == Step(TRUE, Contents, MaxRelatedValues)

Spec == Init /\ [][Next]_vars

\* requests of several callers in flight together, over one directory and
\* with fewer arguments
ConcTexts == {ShortText, LongA, LongC}

InitConc == Init /\ files["2024-01-01"] = TextFile(ShortText)

NextConc == Step(FALSE, ConcTexts, {DefaultMaxRelated})

SpecConc == InitConc /\ [][NextConc]_vars

----------------------------------------------------------------------------
(* Functions of the program applied on their own: a run starts with the    *)
(* arguments of one call in fn and applies the function to them            *)

eng == <<files, globOrder, cache, tk, running, cacheSrc, extractCount,
         prev, last, emptied, started, edits>>

\* the tokens theme sets are made of
ThemeTokens == {"a", "b", "c", "d", "e", "f"}

\* the non-empty theme sets extract_themes_and_topics can return
ThemeSets == {A \in SUBSET ThemeTokens : Cardinality(A) \in 1..MaxThemes}

SimilarityInputs ==
    {[op |-> "similarity", done |-> FALSE, a |-> A, b |-> B] : A, B \in ThemeSets}

\* the similarity of find_related_entries for a pair of theme sets, taken
\* both ways and for a set with itself
ApplySimilarity ==
    /\ fn.op = "similarity" /\ ~fn.done
    /\ fn' = [op |-> "similarity", done |-> TRUE, a |-> fn.a, b |-> fn.b,
              ab |-> Similarity(fn.a, fn.b),
              ba |-> Similarity(fn.b, fn.a),
              aa |-> Similarity(fn.a, fn.a)]
    /\ UNCHANGED <<eng, genCalls>>

\* what stands between two commas of a backend response
Pieces == {"a", " B\n", "", " "}

PieceChars(piece) ==
    CASE piece = "a" -> <<"a">>
      [] piece = " B\n" -> <<" ", "B", "\n">>
      [] piece = "" -> <<>>
      [] piece = " " -> <<" ">>

\* the response text: the pieces with a comma between two of them
RECURSIVE ResponseText(_)
ResponseText(pieces) ==
    IF pieces = <<>> THEN <<>>
    ELSE IF Len(pieces) = 1 THEN PieceChars(pieces[1])
    ELSE PieceChars(pieces[1]) \o <<",">> \o ResponseText(Tail(pieces))

ParseInputs(most) ==
    {[op |-> "parse", done |-> FALSE, pieces |-> ps] :
        ps \in UNION {[1..n -> Pieces] : n \in 0..most}}

\* extract_themes_and_topics from the response of the backend on (lines
\* 78-83)
ApplyParseThemes ==
    /\ fn.op = "parse" /\ ~fn.done
    /\ fn' = [op |-> "parse", done |-> TRUE, pieces |-> fn.pieces,
              themes |-> ParseThemes(ResponseText(fn.pieces))]
    /\ UNCHANGED <<eng, genCalls>>

(* The response to generate_reflection_prompts is a sequence of tokens: a   *)
(* token is one character, or one of the words the code looks for          *)
(* ("<think>", "</think>", "**", "here are"), or "long", a word of 21      *)
(* letters.                                                                *)

ThinkOpen == "<think>"
ThinkClose == "</think>"

\* the words that make generate_reflection_prompts skip a line (line 253)
SkipMarkers ==
    {"unresolved", "worth exploring", "here are", "**", "topics:", "questions:",
     ThinkOpen, ThinkClose}

\* the characters "^[\d\-\.\s]+" removes from the start of a line
IsListMarker(tok) ==
    tok \in {"0", "1", "2", "3", "4", "5", "6", "7", "8", "9", "-", ".", " ", "\n"}

\* len() of a token
TokenLen(tok) ==
    CASE tok = "long" -> 21
      [] tok \in {ThinkOpen} -> 7
      [] tok \in {ThinkClose, "here are"} -> 8
      [] tok = "**" -> 2
      [] OTHER -> 1

TokenText(tok) == IF tok = "long" THEN "xxxxxxxxxxxxxxxxxxxxx" ELSE tok

RECURSIVE TextLen(_)
TextLen(s) == IF s = <<>> THEN 0 ELSE TokenLen(Head(s)) + TextLen(Tail(s))

RECURSIVE TextOf(_)
TextOf(s) == IF s = <<>> THEN "" ELSE TokenText(Head(s)) \o TextOf(Tail(s))

\* s from the token after the first ThinkClose on
RECURSIVE AfterThinkClose(_)
AfterThinkClose(s) ==
    IF Head(s) = ThinkClose THEN Tail(s) ELSE AfterThinkClose(Tail(s))

\* the text between the markers kept
KeepThinkBlocks(s) == s

\* re.sub(r'<think>.*?</think>', '', response_text, flags=re.DOTALL)
RECURSIVE RemoveThinkBlocks(_)
RemoveThinkBlocks(s) ==
    IF s = <<>> THEN <<>>
    ELSE IF Head(s) = ThinkOpen /\ ThinkClose \in Range(Tail(s))
         THEN RemoveThinkBlocks(AfterThinkClose(Tail(s)))
         ELSE <<Head(s)>> \o RemoveThinkBlocks(Tail(s))

\* re.sub(r'</?think>', '', response_text)
RemoveThinkTags(s) == SelectSeq(s, LAMBDA tok : tok \notin {ThinkOpen, ThinkClose})

\* str.split("\n")
RECURSIVE SplitLines(_, _)
SplitLines(s, line) ==
    IF s = <<>> THEN <<line>>
    ELSE IF Head(s) = "\n" THEN <<line>> \o SplitLines(Tail(s), <<>>)
    ELSE SplitLines(Tail(s), Append(line, Head(s)))

\* line.startswith(("1.", "2.", "3.", "4.", "5.")) or line.startswith("-")
StartsWithListMarker(line) ==
    \/ Len(line) >= 2 /\ line[1] \in {"1", "2", "3", "4", "5"} /\ line[2] = "."
    \/ Len(line) >= 1 /\ line[1] = "-"

RECURSIVE DropListMarkers(_)
DropListMarkers(line) ==
    IF line # <<>> /\ IsListMarker(Head(line)) THEN DropListMarkers(Tail(line)) ELSE line

\* the body of the loop over the lines (lines 250-263): the prompts with the
\* prompt of this line, if it is accepted
AcceptLine(prompts, raw) ==
    LET line == Strip(raw)
        clean_prompt == Strip(DropListMarkers(line))
    IN  IF \E tok \in Range(line) : tok \in SkipMarkers THEN prompts
        ELSE IF line # <<>> /\ StartsWithListMarker(line)
                /\ clean_prompt # <<>>
                /\ (clean_prompt[Len(clean_prompt)] = "?" \/ TextLen(clean_prompt) > 20)
        THEN Append(prompts, TextOf(clean_prompt))
        ELSE prompts

RECURSIVE AcceptLines(_, _)
AcceptLines(prompts, lines) ==
    IF lines = <<>> THEN prompts
    ELSE AcceptLines(AcceptLine(prompts, Head(lines)), Tail(lines))

\* generate_reflection_prompts from the response of the backend to the list
\* before the slice (lines 246-263)
ParsePrompts(response_text) ==
    AcceptLines(<<>>, SplitLines(RemoveThinkTags(RemoveThinkBlocks(response_text)), <<>>))

\* lines a backend may write
ResponseLines ==
    { <<"1", ".", " ", "a", "?">>,
      <<" ", "-", " ", "b", "?">>,
      <<"6", ".", " ", "c", "?">>,
      <<"2", ".", " ", "**", "d", "?">>,
      <<"3", ".", " ", "e">>,
      <<"4", ".", " ", "long">>,
      <<ThinkOpen, "5", ".", " ", "f", "?">>,
      <<ThinkClose, "5", ".", "g", "?">>,
      <<"1", ".", " ", "2", " ", "h", "?">> }

\* ten numbered lines, "1. q?" to "10. z?"
TenNumberedLines ==
    LET letter == <<"q", "r", "s", "t", "u", "v", "w", "x", "y", "z">> IN
    [i \in 1..10 |->
        IF i = 10 THEN <<"1", "0", ".", " ", letter[i], "?">>
        ELSE <<ToString(i), ".", " ", letter[i], "?">>]

\* the lines with a line feed between two of them
RECURSIVE JoinLines(_)
JoinLines(lines) ==
    IF lines = <<>> THEN <<>>
    ELSE IF Len(lines) = 1 THEN lines[1]
    ELSE lines[1] \o <<"\n">> \o JoinLines(Tail(lines))

Counts == {-1, 0, 1, 3}

PromptInputs(most) ==
    {[op |-> "prompts", done |-> FALSE, lines |-> ls, count |-> n] :
        ls \in {TenNumberedLines} \cup UNION {[1..k -> ResponseLines] : k \in 0..most},
        n \in Counts}

\* generate_reflection_prompts from the response of the backend on (lines
\* 246-266)
ApplyParsePrompts ==
    /\ fn.op = "prompts" /\ ~fn.done
    /\ LET accepted == ParsePrompts(JoinLines(fn.lines)) IN
       fn' = [op |-> "prompts", done |-> TRUE, lines |-> fn.lines, count |-> fn.count,
              accepted |-> accepted,
              prompts |-> Slice(accepted, fn.count)]
    /\ UNCHANGED <<eng, genCalls>>

\* entries with and without a Brain Dump section
BrainDumpTexts ==
    {c \in {[Text(300, 7, 7, b, lk, 0) EXCEPT !.header = h, !.placeholder = ph] :
                b \in {0, 50, 51, 99, 100}, lk \in {0, 40},
                h \in {"none", "plain", "thought", "brain"}, ph \in BOOLEAN} :
        /\ c.header = "none" <=> c.brain = 0
        /\ c.placeholder => c.brain >= PlaceholderLen}

AnalysisInputs == {[op |-> "analysis", done |-> FALSE, content |-> c] : c \in BrainDumpTexts}

\* extract_themes_and_topics up to the prompt (lines 41-65)
ApplyAnalysisContent ==
    /\ fn.op = "analysis" /\ ~fn.done
    /\ fn' = [op |-> "analysis", done |-> TRUE, content |-> fn.content,
              sent |-> AnalysisContent(fn.content)]
    /\ UNCHANGED <<eng, genCalls>>

\* enough theme names for two lists of MaxThemes themes with one in common
ManyThemes == <<"a", "b", "c", "d", "e", "f", "g", "h", "i">>

RECURSIVE ListOf(_)
\* a list holding the themes of a set, each once
ListOf(S) ==
    IF S = {} THEN <<>>
    ELSE LET x == CHOOSE y \in S : TRUE IN <<x>> \o ListOf(S \ {x})

\* the current themes and the list of themes returned for a candidate: every
\* list extract_themes_and_topics can return holds at most MaxThemes themes
\* (themes[:5])
ThresholdInputs ==
    {[op |-> "keep", done |-> FALSE, cur |-> {ManyThemes[i] : i \in 1..k},
      themes |-> ListOf(B)] :
        k \in 1..MaxThemes,
        B \in {X \in SUBSET Range(ManyThemes) : Cardinality(X) <= MaxThemes}}

\* one iteration of the loop of find_related_entries from the themes of the
\* candidate on (lines 151-165)
ApplyKeepCandidate ==
    /\ fn.op = "keep" /\ ~fn.done
    /\ LET r == AfterCandidate([IdleTask EXCEPT !.cur = fn.cur,
                                                !.entries = <<"2024-01-01">>,
                                                !.idx = 1], fn.themes)
       IN  fn' = [op |-> "keep", done |-> TRUE, cur |-> fn.cur,
                  themes |-> fn.themes, sims |-> r.sims, scores |-> r.scores]
    /\ UNCHANGED <<eng, genCalls>>

\* the first place of s where "---", a line feed and the label follow one
\* another, or 0
RECURSIVE FindSection(_, _, _)
FindSection(s, label, i) ==
    IF i + 2 > Len(s) THEN 0
    ELSE IF s[i] = "---" /\ s[i + 1] = "\n" /\ s[i + 2] = label THEN i
    ELSE FindSection(s, label, i + 1)

\* re.sub(r"---\n\*\*<label>\*\*.*$", "", content, flags=re.DOTALL): the
\* content up to the first match
CutSection(s, label) ==
    IF FindSection(s, label, 1) = 0 THEN s
    ELSE SubSeq(s, 1, FindSection(s, label, 1) - 1)

\* remove_existing_backlinks of entry_manager.py
remove_existing_backlinks(content) ==
    RStrip(CutSection(CutSection(content, "**Related entries:**"), "**Memory links:**"))

\* sep.join(items), one token for an item and one for a separator
RECURSIVE JoinWith(_, _)
JoinWith(items, sep) ==
    IF items = <<>> THEN <<>>
    ELSE IF Len(items) = 1 THEN <<items[1]>>
    ELSE <<items[1], sep>> \o JoinWith(Tail(items), sep)

\* the section add_memory_links builds (lines 70-81); the heading line is
\* "## 🔗 Memory Links"
memory_section(related, topic_tags) ==
    <<"\n", "\n", "---", "\n", "\n", "## Memory Links", "\n", "\n">>
      \o (IF related # <<>>
          THEN <<"**Temporal connections:**", " ">> \o JoinWith(related, " * ")
                 \o <<"\n", "\n">>
          ELSE <<>>)
      \o (IF topic_tags # <<>>
          THEN <<"**Topic tags:**", " ">> \o JoinWith(topic_tags, " ") \o <<"\n", "\n">>
          ELSE <<>>)
      \o (IF related # <<>> \/ topic_tags # <<>>
          THEN <<"*Temporal connections and topic exploration available in Obsidian.*">>
          ELSE <<"*No connections found - this represents novel cognitive territory.*">>)

\* add_memory_links of entry_manager.py
add_memory_links(content, related, topic_tags) ==
    remove_existing_backlinks(content) \o memory_section(related, topic_tags)

\* entries without link section, with a section of one of the two old
\* formats, and with blank lines at their end
LinkContents ==
    { <<"text">>,
      <<"text", "\n", "\n">>,
      <<"text", "\n", "---", "\n", "text">>,
      <<"text", "\n", "---", "\n", "**Related entries:**", " ", "[[2024-01-01]]">>,
      <<"text", "\n", "\n", "---", "\n", "**Memory links:**", " ", "[[2024-01-01]]",
        "\n">> }

LinkInputs ==
    {[op |-> "links", done |-> FALSE, content |-> c, related |-> r, tags |-> t] :
        c \in LinkContents,
        r \in {<<>>, <<"[[2024-01-01]]">>, <<"[[2024-01-01]]", "[[2024-01-02]]">>},
        t \in {<<>>, <<"#job">>, <<"#job", "#anxiety">>}}

\* add_memory_links applied to an entry, and again to what it returned
ApplyAddMemoryLinks ==
    /\ fn.op = "links" /\ ~fn.done
    /\ LET once == add_memory_links(fn.content, fn.related, fn.tags) IN
       fn' = [fn EXCEPT !.done = TRUE] @@
             [once |-> once,
              twice |-> add_memory_links(once, fn.related, fn.tags)]
    /\ UNCHANGED <<eng, genCalls>>

FnInputs(pieces, lines) ==
    SimilarityInputs \cup ParseInputs(pieces) \cup PromptInputs(lines)
      \cup AnalysisInputs \cup ThresholdInputs \cup LinkInputs

InitFn ==
    /\ InitEngine
    /\ files["2024-1-2"].kind = "absent"
    /\ genCalls = NoGenCalls
    /\ fn \in FnInputs(MaxPieces, MaxLines)

NextFn ==
    \/ ApplySimilarity
    \/ ApplyParseThemes
    \/ ApplyParsePrompts
    \/ ApplyAnalysisContent
    \/ ApplyKeepCandidate
    \/ ApplyAddMemoryLinks

SpecFn == InitFn /\ [][NextFn]_vars

----------------------------------------------------------------------------
(* Failures of the backend and of the store *)

\* the request of task t ends with an exception raised to its caller
Raise(t, exception, origin) ==
    /\ tk' = [tk EXCEPT ![t].pc = "raised", ![t].error = exception,
                        ![t].cause = origin]
    /\ running' = NoTask

\* generate returns a value that is not a string (the "response" field of
\* the reply is a JSON array): response_text.strip() raises AttributeError at
\* line 80, after the try statement of lines 67-76
BackendMalformed(t) ==
    /\ running = NoTask
    /\ tk[t].pc = "await"
    /\ Raise(t, "AttributeError", "generation")
    /\ UNCHANGED <<files, globOrder, cache, cacheSrc, extractCount, prev, last,
                   emptied, started, edits>>

\* the request is cancelled while it awaits the backend: CancelledError is
\* not an Exception, so neither except clause catches it
BackendCancelled(t) ==
    /\ running = NoTask
    /\ tk[t].pc \in {"await", "awaitPrompts"}
    /\ Raise(t, "CancelledError", "generation")
    /\ UNCHANGED <<files, globOrder, cache, cacheSrc, extractCount, prev, last,
                   emptied, started, edits>>

\* len(recent_content.strip()) of a text without links section
StrippedLen(content) == content.len - content.pad

\* a caller awaits generate_reflection_prompts(recent_content, count=count),
\* up to its return or to the await of the backend
StartPrompts(t, recent_content, count) ==
    /\ CanStart(t, TRUE)
    /\ tk' = [tk EXCEPT ![t] =
                [IdleTask EXCEPT !.op = "prompts", !.pendC = recent_content,
                                 !.count = count,
                                 !.pc = IF StrippedLen(recent_content) < MinAnalysisLen
                                        THEN "done" ELSE "awaitPrompts",
                                 !.gens = IF StrippedLen(recent_content) < MinAnalysisLen
                                          THEN 0 ELSE 1]]
    /\ running' = NoTask
    /\ started' = started + 1
    /\ UNCHANGED <<files, globOrder, cache, cacheSrc, extractCount, prev, last,
                   emptied, edits>>

\* the backend answers generate_reflection_prompts
PromptsReturn(t, response_text) ==
    /\ running = NoTask
    /\ tk[t].pc = "awaitPrompts"
    /\ tk' = [tk EXCEPT ![t].pc = "done",
                        ![t].result = Slice(ParsePrompts(response_text), tk[t].count)]
    /\ UNCHANGED <<files, globOrder, cache, cacheSrc, running, extractCount, prev,
                   last, emptied, started, edits>>

\* ollama_client.generate raises: generate_reflection_prompts returns []
PromptsFail(t) ==
    /\ running = NoTask
    /\ tk[t].pc = "awaitPrompts"
    /\ tk' = [tk EXCEPT ![t].pc = "done", ![t].result = <<>>]
    /\ UNCHANGED <<files, globOrder, cache, cacheSrc, running, extractCount, prev,
                   last, emptied, started, edits>>

\* generate returns a value that is not a string: re.sub raises TypeError at
\* line 246, after the try statement of lines 230-241
PromptsMalformed(t) ==
    /\ running = NoTask
    /\ tk[t].pc = "awaitPrompts"
    /\ Raise(t, "TypeError", "generation")
    /\ UNCHANGED <<files, globOrder, cache, cacheSrc, extractCount, prev, last,
                   emptied, started, edits>>

\* an entry file is deleted while no request holds the event loop
RemoveEntry(stem) ==
    /\ running = NoTask
    /\ edits < MaxEdits
    /\ files[stem].kind = "text"
    /\ files' = [files EXCEPT ![stem] = Absent]
    /\ edits' = edits + 1
    /\ UNCHANGED <<globOrder, cache, cacheSrc, tk, running, extractCount,
                   prev, last, emptied, started>>

ErrTexts == {ShortText, LongA}

PromptAnswers == { <<"1", ".", " ", "a", "?", "\n", "-", " ", "b", "?">>, <<"o", "k">> }

\* an entry the user wrote, beginning with the words "Error reading file"
ErrorLooking == [LongB EXCEPT !.err = TRUE]

ErrCorpora ==
    { [st \in Stems |-> CASE st = "2024-01-01" -> TextFile(LongA)
                          [] st = "2024-01-02" -> Undecodable
                          [] st = "2024-1-2" -> TextFile(LongD)],
      [st \in Stems |-> CASE st = "2024-01-01" -> Unreadable
                          [] st = "2024-01-02" -> TextFile(LongA)
                          [] st = "2024-1-2" -> TextFile(LongB)],
      [st \in Stems |-> CASE st = "2024-01-01" -> TextFile(LongA)
                          [] st = "2024-01-02" -> TextFile(ErrorLooking)
                          [] st = "2024-1-2" -> Absent] }

InitErr ==
    /\ files \in ErrCorpora
    /\ globOrder = <<"2024-01-01", "2024-01-02", "2024-1-2">>
    /\ cache = [k \in {} |-> <<>>]
    /\ cacheSrc = [k \in {} |-> Source(ShortText, "")]
    /\ tk = [t \in Tasks |-> IdleTask]
    /\ running = NoTask
    /\ extractCount = [k \in AllKeys |-> 0]
    /\ prev = [valid |-> FALSE, content |-> ShortText, id |-> "", themes |-> <<>>,
               gens |-> 0]
    /\ last = NoCall
    /\ emptied = {}
    /\ started = 0
    /\ edits = 0
    /\ genCalls = NoGenCalls
    /\ fn = NoFn

\* a single caller at a time, with a backend and a store that may fail
NextErr ==
    \/ Step(TRUE, ErrTexts, {DefaultMaxRelated})
    \/ \E t \in Tasks : BackendMalformed(t) /\ UNCHANGED ext
    \/ \E t \in Tasks : BackendCancelled(t) /\ UNCHANGED ext
    \/ \E t \in Tasks, c \in ErrTexts, n \in Counts : StartPrompts(t, c, n) /\ UNCHANGED ext
    \/ \E t \in Tasks, resp \in PromptAnswers : PromptsReturn(t, resp) /\ UNCHANGED ext
    \/ \E t \in Tasks : PromptsFail(t) /\ UNCHANGED ext
    \/ \E t \in Tasks : PromptsMalformed(t) /\ UNCHANGED ext
    \/ \E st \in Stems : RemoveEntry(st) /\ UNCHANGED ext

SpecErr == InitErr /\ [][NextErr]_vars

----------------------------------------------------------------------------
(* The tools of server.py that recompute the links of an entry *)

\* two entries about the same job interview
JobA == Text(150, 8, 1, 0, 0, 0)
JobB == Text(160, 9, 1, 0, 0, 0)

\* the directory of the two entries
JobCorpus ==
    [st \in Stems |-> CASE st = "2024-01-01" -> TextFile(JobA)
                        [] st = "2024-01-02" -> TextFile(JobB)
                        [] st = "2024-1-2" -> Absent]

ToolNames == {"complete", "update"}
\* the dates the tools are called with
ToolDates == {"2024-01-02", "2024-1-2", "2024-01-03"}

\* datetime.strptime(date, "%Y-%m-%d").strftime("%Y-%m-%d"): month and day
\* come back with two digits
Filename(date) ==
    CASE date = "2024-1-2" -> "2024-01-02"
      [] OTHER -> date

\* no file found whatever the directory holds
ExistsNever(filename) == FALSE

\* file_path.exists()
Exists(filename) == filename \in Stems /\ files[filename].kind # "absent"

\* len("\n\n---\n\n## 🔗 Memory Links\n\n")
MemoryHeaderLen == 26
\* len("**Temporal connections:** ") and len("**Topic tags:** ")
TemporalLabelLen == 26
TopicLabelLen == 16

\* re.sub of the two old link formats, then rstrip(): the section the tools
\* write themselves ("## 🔗 Memory Links") matches neither pattern and stays
RemoveBacklinks(content) ==
    [content EXCEPT !.len = @ - content.links - content.pad,
                    !.links = 0, !.pad = 0]

\* generate_topic_tags for themes of plain lower-case words
TopicTags(themes) == [i \in 1..Len(themes) |-> "#" \o themes[i]]

Note(name, connected) ==
    CASE name = "complete" /\ connected ->
           "*Explore these connections in Obsidian's Backlinks panel and Graph view.*"
      [] name = "complete" /\ ~connected ->
           "*No connections found - this represents novel cognitive territory.*"
      [] name # "complete" /\ connected ->
           "*These entries share thematic resonance with your exploration.*"
      [] OTHER -> "*No thematic connections found.*"

\* the memory links section a tool appends
MemorySection(name, related, topic_tags) ==
    [related |-> related, tags |-> topic_tags,
     note |-> Note(name, related # <<>> \/ topic_tags # <<>>)]

RECURSIVE JoinedLen(_, _)
\* len(sep.join(items))
JoinedLen(items, sepLen) ==
    IF items = <<>> THEN 0
    ELSE Len(Head(items)) + (IF Len(items) > 1 THEN sepLen ELSE 0)
           + JoinedLen(Tail(items), sepLen)

MemorySectionLen(section) ==
    MemoryHeaderLen
      + (IF section.related # <<>>
         THEN TemporalLabelLen + JoinedLen(section.related, 3) + 2 ELSE 0)
      + (IF section.tags # <<>>
         THEN TopicLabelLen + JoinedLen(section.tags, 1) + 2 ELSE 0)
      + Len(section.note)

\* content += memory_section
AppendSection(content, section) ==
    [content EXCEPT !.len = @ + MemorySectionLen(section),
                    !.mem = Append(@, section)]

\* a tool is called: it reads the entry and awaits find_related_entries
StartTool(t, name, date) ==
    /\ CanStart(t, TRUE)
    /\ started' = started + 1
    /\ LET filename == Filename(date)
           call == [name |-> name, date |-> filename, step |-> "returned"]
       IN  IF ~Exists(filename)
           THEN /\ tk' = [tk EXCEPT ![t] =
                            [IdleTask EXCEPT !.pc = "done", !.op = "tool",
                                             !.tool = call]]
                /\ running' = NoTask
           ELSE IF ReadRaises(files[filename])
           THEN /\ tk' = [tk EXCEPT ![t] =
                            [IdleTask EXCEPT !.pc = "raised", !.op = "tool",
                                             !.error = "UnicodeDecodeError",
                                             !.cause = "storage",
                                             !.tool = call]]
                /\ running' = NoTask
           ELSE LET content == ReadEntry(files[filename])
                IN  /\ tk' = [tk EXCEPT ![t] =
                                [IdleTask EXCEPT !.pc = "lookup", !.op = "find",
                                                 !.stage = "current",
                                                 !.exclude = filename,
                                                 !.max = DefaultMaxRelated,
                                                 !.pendC = content,
                                                 !.pendId = filename,
                                                 !.tool =
                                                    [name |-> name,
                                                     date |-> filename,
                                                     step |-> "related",
                                                     content |-> content,
                                                     related |-> <<>>,
                                                     tags |-> <<>>]]]
                    /\ running' = t
    /\ UNCHANGED <<files, globOrder, cache, cacheSrc, extractCount, prev, last,
                   emptied, edits, genCalls>>

\* get_themes_cached of server.py; a miss of a tool's request sends an
\* extraction to the backend
ServerLookup(t) ==
    /\ LookupWith(t, ServerAnalysisLen(tk[t].pendC))
    /\ genCalls' = IF tk[t].tool.name # "none" /\ tk'[t].pc = "await"
                   THEN Bump(genCalls, <<tk[t].pendId, tk[t].pendC>>)
                   ELSE genCalls

\* the tool from the themes of the stripped content to its return or to
\* the extraction for its summary; calls is the count of extractions so far
AfterTags(t, content, related, themes, calls) ==
    LET r == tk[t]
        topic_tags == TopicTags(themes)
        written == AppendSection(content,
                                 MemorySection(r.tool.name, related, topic_tags))
        call == [r.tool EXCEPT !.content = written, !.related = related,
                               !.tags = topic_tags]
    IN  /\ files' = [files EXCEPT ![r.tool.date] = TextFile(written)]
        /\ IF r.tool.name = "complete" /\ ServerAnalysisLen(written) >= MinAnalysisLen
           THEN /\ tk' = [tk EXCEPT ![t].pc = "awaitSummary",
                                    ![t].tool = [call EXCEPT !.step = "summary"]]
                /\ genCalls' = Bump(calls, <<r.tool.date, written>>)
           ELSE /\ tk' = [tk EXCEPT ![t].pc = "done",
                                    ![t].tool = [call EXCEPT !.step = "returned"]]
                /\ genCalls' = calls
        /\ running' = NoTask
        /\ UNCHANGED <<globOrder, cache, cacheSrc, extractCount, prev, last,
                       emptied, started, edits>>

\* find_related_entries has returned: the tool strips the old link sections
\* and calls extract_themes_and_topics itself, not through the cache
ToolTags(t) ==
    /\ running = NoTask
    /\ tk[t].pc = "done"
    /\ tk[t].tool.name \in ToolNames
    /\ tk[t].tool.step = "related"
    /\ LET content == RemoveBacklinks(tk[t].tool.content)
           related == tk[t].result
       IN  IF ServerAnalysisLen(content) < MinAnalysisLen
           THEN AfterTags(t, content, related, <<>>, genCalls)
           ELSE /\ tk' = [tk EXCEPT ![t].pc = "awaitTags",
                                    ![t].tool = [@ EXCEPT !.content = content,
                                                          !.related = related,
                                                          !.step = "tags"]]
                /\ genCalls' = Bump(genCalls, <<tk[t].tool.date, content>>)
                /\ UNCHANGED <<files, globOrder, cache, cacheSrc, extractCount,
                               prev, last, emptied, started, edits, running>>

\* the backend answers the tool's own extraction
ToolTagsReturn(t) ==
    /\ running = NoTask
    /\ tk[t].pc = "awaitTags"
    /\ \E response_text \in Answers(tk[t].tool.content) :
          AfterTags(t, tk[t].tool.content, tk[t].tool.related,
                    ParseThemes(response_text), genCalls)

\* the backend fails: extract_themes_and_topics returns []
ToolTagsFail(t) ==
    /\ running = NoTask
    /\ tk[t].pc = "awaitTags"
    /\ AfterTags(t, tk[t].tool.content, tk[t].tool.related, <<>>, genCalls)

\* the extraction for the summary ends, with themes or without: the tool
\* returns its message
ToolSummaryDone(t) ==
    /\ running = NoTask
    /\ tk[t].pc = "awaitSummary"
    /\ tk' = [tk EXCEPT ![t].pc = "done", ![t].tool.step = "returned"]
    /\ UNCHANGED <<files, globOrder, cache, cacheSrc, extractCount, prev, last,
                   emptied, started, edits, running, genCalls>>

InitTool ==
    /\ files = JobCorpus
    /\ globOrder = <<"2024-01-01", "2024-01-02", "2024-1-2">>
    /\ cache = [k \in {} |-> <<>>]
    /\ cacheSrc = [k \in {} |-> Source(ShortText, "")]
    /\ tk = [t \in Tasks |-> IdleTask]
    /\ running = NoTask
    /\ extractCount = [k \in AllKeys |-> 0]
    /\ prev = [valid |-> FALSE, content |-> ShortText, id |-> "", themes |-> <<>>,
               gens |-> 0]
    /\ last = NoCall
    /\ emptied = {}
    /\ started = 0
    /\ edits = 0
    /\ genCalls = NoGenCalls
    /\ fn = NoFn

\* a single caller at a time: tools on the entry of 2024-01-02 and direct
\* requests for its related entries
NextTool ==
    \/ \E t \in Tasks, name \in ToolNames, date \in ToolDates :
          StartTool(t, name, date) /\ UNCHANGED fn
    \/ \E t \in Tasks, e \in ExcludeDates, m \in MaxRelatedValues :
          StartFindRelated(t, JobB, e, m, TRUE) /\ UNCHANGED ext
    \/ \E t \in Tasks : ServerLookup(t) /\ UNCHANGED fn
    \/ \E t \in Tasks : \E response_text \in Answers(tk[t].pendC) :
          BackendReturn(t, response_text) /\ UNCHANGED ext
    \/ \E t \in Tasks : BackendFail(t) /\ UNCHANGED ext
    \/ \E t \in Tasks : Scan(t) /\ UNCHANGED ext
    \/ \E t \in Tasks : ToolTags(t) /\ UNCHANGED fn
    \/ \E t \in Tasks : ToolTagsReturn(t) /\ UNCHANGED fn
    \/ \E t \in Tasks : ToolTagsFail(t) /\ UNCHANGED fn
    \/ \E t \in Tasks : ToolSummaryDone(t) /\ UNCHANGED fn

SpecTool == InitTool /\ [][NextTool]_vars

----------------------------------------------------------------------------
(* The template of a new entry (template_generator.py) *)

\* the dates a template is asked for: a Wednesday, the Sunday after the
\* entries and the Sunday after it
TemplateDates == {"2024-01-03", "2024-01-07", "2024-01-14"}

\* the day of January 2024
DayOfDate(date) ==
    CASE date = "2024-01-03" -> 3
      [] date = "2024-01-07" -> 7
      [] date = "2024-01-14" -> 14

DaysOfWeek == 7

\* entry_date.weekday() == 6: Monday is 0, and 1 January 2024 was a Monday
IsSunday(date) == (DayOfDate(date) - 1) % DaysOfWeek = 6

\* RECENT_ENTRIES_COUNT of config.py
RecentEntriesCount == 3

\* the entries whose text goes into the context: those of the seven days
\* before a Sunday, the newest RECENT_ENTRIES_COUNT on another day
RecentEntries(date) ==
    LET all_entries == GetAllEntries(files, globOrder) IN
    IF IsSunday(date)
    THEN SelectSeq(all_entries,
                   LAMBDA st : /\ DayOfDate(date) - DaysOfWeek <= DateOf(st)
                               /\ DateOf(st) < DayOfDate(date))
    ELSE Slice(all_entries, RecentEntriesCount)

\* len() of "## MOST RECENT ENTRY (2024-01-01):\n" and of
\* "## Earlier entry (2024-01-01):\n"
MostRecentHeaderLen == 35
EarlierHeaderLen == 31

\* len(recent_text.strip()): the parts joined with two line feeds; a part
\* begins with "##"
RECURSIVE RecentTextLen(_, _)
RecentTextLen(entries, i) ==
    IF i > Len(entries) THEN 0
    ELSE LET content == ReadEntry(files[entries[i]])
             part == (IF i = 1 THEN MostRecentHeaderLen ELSE EarlierHeaderLen)
                     + (IF i = Len(entries) THEN StrippedLen(content) ELSE content.len)
         IN  part + (IF i < Len(entries) THEN 2 ELSE 0) + RecentTextLen(entries, i + 1)

\* prompt_count = 5 if is_sunday else 3
PromptCount(is_sunday) == IF is_sunday THEN 5 ELSE 3

\* _get_fallback_prompts
FallbackPrompts(is_sunday) ==
    IF is_sunday
    THEN <<"What went well this week, and what felt hard?",
           "What choices did you make that you want to remember?",
           "What do you want to do differently next week?",
           "What's one thing you learned about yourself?",
           "What are you looking forward to or worried about?">>
    ELSE <<"What's on your mind right now?",
           "What choices are you thinking about?",
           "What felt good or difficult today?">>

\* _build_template: the heading and the numbered prompts; the sections after
\* them are the same in every template
BuildTemplate(prompts, is_sunday) ==
    [heading |-> IF is_sunday THEN "Weekly Synthesis & Alignment"
                 ELSE "Reflection Prompts",
     prompts |-> [i \in 1..Len(prompts) |-> [number |-> i, text |-> prompts[i]]]]

\* generate_template_content from the return of generate_reflection_prompts
\* to its own return (lines 58-62)
TemplateDone(r, prompts) ==
    [r EXCEPT !.pc = "done", !.result = prompts,
              !.tool = [name |-> "template", step |-> "returned",
                        sunday |-> r.tool.sunday,
                        template |->
                           BuildTemplate(IF prompts = <<>>
                                         THEN FallbackPrompts(r.tool.sunday)
                                         ELSE prompts,
                                         r.tool.sunday)]]

\* a caller awaits generate_template_content(entry_date, filename), up to
\* its return or to the await of the backend in generate_reflection_prompts
StartTemplate(t, date) ==
    /\ CanStart(t, TRUE)
    /\ started' = started + 1
    /\ running' = NoTask
    /\ LET is_sunday == IsSunday(date)
           recent_entries == RecentEntries(date)
           r == [IdleTask EXCEPT !.op = "template",
                                 !.count = PromptCount(is_sunday),
                                 !.reads = recent_entries,
                                 !.tool = [name |-> "template", step |-> "prompts",
                                           sunday |-> is_sunday]]
       IN  IF \E i \in 1..Len(recent_entries) : ReadRaises(files[recent_entries[i]])
           THEN tk' = [tk EXCEPT ![t] = [r EXCEPT !.pc = "raised",
                                                  !.error = "UnicodeDecodeError",
                                                  !.cause = "storage"]]
           ELSE IF RecentTextLen(recent_entries, 1) < MinAnalysisLen
           THEN tk' = [tk EXCEPT ![t] = TemplateDone(r, <<>>)]
           ELSE tk' = [tk EXCEPT ![t] = [r EXCEPT !.pc = "awaitPrompts", !.gens = 1]]
    /\ UNCHANGED <<files, globOrder, cache, cacheSrc, extractCount, prev, last,
                   emptied, edits>>

\* the backend answers generate_reflection_prompts called for a template
TemplateReturn(t, response_text) ==
    /\ running = NoTask
    /\ tk[t].pc = "awaitPrompts" /\ tk[t].op = "template"
    /\ tk' = [tk EXCEPT ![t] =
                TemplateDone(tk[t], Slice(ParsePrompts(response_text), tk[t].count))]
    /\ UNCHANGED <<files, globOrder, cache, cacheSrc, running, extractCount, prev,
                   last, emptied, started, edits>>

\* ollama_client.generate raises: generate_reflection_prompts returns []
TemplateFail(t) ==
    /\ running = NoTask
    /\ tk[t].pc = "awaitPrompts" /\ tk[t].op = "template"
    /\ tk' = [tk EXCEPT ![t] = TemplateDone(tk[t], <<>>)]
    /\ UNCHANGED <<files, globOrder, cache, cacheSrc, running, extractCount, prev,
                   last, emptied, started, edits>>

\* what the backend may write for a template
TemplateAnswers == PromptAnswers \cup {JoinLines(TenNumberedLines)}

\* a directory without entry
NoEntries == [st \in Stems |-> Absent]

InitTemplate ==
    /\ files \in ErrCorpora \cup {NoEntries}
    /\ globOrder = <<"2024-01-01", "2024-01-02", "2024-1-2">>
    /\ cache = [k \in {} |-> <<>>]
    /\ cacheSrc = [k \in {} |-> Source(ShortText, "")]
    /\ tk = [t \in Tasks |-> IdleTask]
    /\ running = NoTask
    /\ extractCount = [k \in AllKeys |-> 0]
    /\ prev = [valid |-> FALSE, content |-> ShortText, id |-> "", themes |-> <<>>,
               gens |-> 0]
    /\ last = NoCall
    /\ emptied = {}
    /\ started = 0
    /\ edits = 0
    /\ genCalls = NoGenCalls
    /\ fn = NoFn

\* templates asked for by a single caller at a time, in a directory whose
\* entries may be deleted
NextTemplate ==
    \/ \E t \in Tasks, date \in TemplateDates : StartTemplate(t, date) /\ UNCHANGED ext
    \/ \E t \in Tasks, resp \in TemplateAnswers : TemplateReturn(t, resp) /\ UNCHANGED ext
    \/ \E t \in Tasks : TemplateFail(t) /\ UNCHANGED ext
    \/ \E t \in Tasks : PromptsMalformed(t) /\ UNCHANGED ext
    \/ \E t \in Tasks : BackendCancelled(t) /\ UNCHANGED ext
    \/ \E st \in Stems : RemoveEntry(st) /\ UNCHANGED ext

SpecTemplate == InitTemplate /\ [][NextTemplate]_vars

----------------------------------------------------------------------------
(* The tools of server.py that create an entry and refresh the links of    *)
(* the recent ones                                                         *)

\* the entry create_diary_entry_file writes with the three fixed prompts,
\* and the one it writes with the prompts "a?" and "b?"
FallbackTemplate == Text(826, 6, 6, 0, 0, 0)
GeneratedTemplate == Text(503, 7, 7, 0, 0, 0)

\* a date that strptime refuses
BadDate == "tomorrow"

\* the dates create_diary_entry_file is called with
CreateDates == {"2024-01-02", "2024-1-2", BadDate}

\* the loop over the lines in generate_reflection_prompts of server.py
\* (lines 232-240)
RECURSIVE ServerAcceptLines(_, _)
ServerAcceptLines(prompts, lines) ==
    IF lines = <<>> THEN prompts
    ELSE LET line == Strip(Head(lines))
             clean_prompt == Strip(DropListMarkers(line))
         IN  ServerAcceptLines(
                 IF line # <<>> /\ StartsWithListMarker(line) /\ clean_prompt # <<>>
                 THEN Append(prompts, TextOf(clean_prompt)) ELSE prompts,
                 Tail(lines))

\* generate_reflection_prompts of server.py from the response on: prompts[:3]
ServerPrompts(response_text) ==
    Slice(ServerAcceptLines(<<>>, SplitLines(response_text, <<>>)), 3)

\* len(recent_text.strip()) in _generate_template_content of server.py: the
\* texts of the entries joined with two line feeds
RECURSIVE ServerRecentLen(_, _)
ServerRecentLen(entries, i) ==
    IF i > Len(entries) THEN 0
    ELSE LET content == ReadEntry(files[entries[i]]) IN
         (IF i = 1 \/ i = Len(entries) THEN StrippedLen(content) ELSE content.len)
           + (IF i < Len(entries) THEN 2 ELSE 0) + ServerRecentLen(entries, i + 1)

\* create_diary_entry_file from the template to its return: write_text
\* succeeds or raises an OSError before it has written
CreateWrite(t, template_content, ok) ==
    /\ files' = IF ok THEN [files EXCEPT ![tk[t].tool.date] = TextFile(template_content)]
                ELSE files
    /\ tk' = [tk EXCEPT ![t].pc = "done",
                        ![t].tool.step = "returned",
                        ![t].tool.message = IF ok THEN "Created intellectual diary entry"
                                            ELSE "Error creating file"]

\* a caller awaits create_diary_entry_file(date), up to its return or to the
\* await of the backend in generate_reflection_prompts
StartCreate(t, date) ==
    /\ CanStart(t, TRUE)
    /\ started' = started + 1
    /\ running' = NoTask
    /\ LET filename == Filename(date)
           recent_entries == Slice(GetAllEntries(files, globOrder), RecentEntriesCount)
           call == [name |-> "create", date |-> filename, step |-> "returned",
                    message |-> ""]
           r == [IdleTask EXCEPT !.op = "tool", !.pc = "done", !.tool = call]
       IN  IF date = BadDate
           THEN /\ tk' = [tk EXCEPT ![t] =
                            [r EXCEPT !.tool.message = "Error: Date must be in YYYY-MM-DD format"]]
                /\ UNCHANGED files
           ELSE IF Exists(filename)
           THEN /\ tk' = [tk EXCEPT ![t] = [r EXCEPT !.tool.message = "already exists"]]
                /\ UNCHANGED files
           ELSE IF \E i \in 1..Len(recent_entries) : ReadRaises(files[recent_entries[i]])
           THEN /\ tk' = [tk EXCEPT ![t] = [r EXCEPT !.pc = "raised",
                                                  !.error = "UnicodeDecodeError",
                                                  !.cause = "storage"]]
                /\ UNCHANGED files
           ELSE IF ServerRecentLen(recent_entries, 1) < MinAnalysisLen
           THEN \E ok \in BOOLEAN :
                   /\ files' = IF ok THEN [files EXCEPT ![filename] = TextFile(FallbackTemplate)]
                               ELSE files
                   /\ tk' = [tk EXCEPT ![t] =
                               [r EXCEPT !.tool.message =
                                            IF ok THEN "Created intellectual diary entry"
                                            ELSE "Error creating file"]]
           ELSE /\ tk' = [tk EXCEPT ![t] = [r EXCEPT !.pc = "awaitTemplate",
                                                  !.tool.step = "template"]]
                /\ UNCHANGED files
    /\ UNCHANGED <<globOrder, cache, cacheSrc, extractCount, prev, last,
                   emptied, edits, genCalls>>

\* the backend answers the prompts of the template
CreateReturn(t, response_text) ==
    /\ running = NoTask
    /\ tk[t].pc = "awaitTemplate"
    /\ \E ok \in BOOLEAN :
          CreateWrite(t, IF ServerPrompts(response_text) = <<>>
                         THEN FallbackTemplate ELSE GeneratedTemplate, ok)
    /\ UNCHANGED <<globOrder, cache, cacheSrc, extractCount, prev, last,
                   emptied, started, edits, running, genCalls>>

\* call_ollama raises: generate_reflection_prompts returns []
CreateFail(t) ==
    /\ running = NoTask
    /\ tk[t].pc = "awaitTemplate"
    /\ \E ok \in BOOLEAN : CreateWrite(t, FallbackTemplate, ok)
    /\ UNCHANGED <<globOrder, cache, cacheSrc, extractCount, prev, last,
                   emptied, started, edits, running, genCalls>>

\* call_ollama returns a value that is not a string: response_text.split
\* raises AttributeError at line 232, after the try statement
CreateMalformed(t) ==
    /\ running = NoTask
    /\ tk[t].pc = "awaitTemplate"
    /\ tk' = [tk EXCEPT ![t].pc = "raised", ![t].error = "AttributeError",
                        ![t].cause = "generation", ![t].tool.step = "returned"]
    /\ UNCHANGED <<files, globOrder, cache, cacheSrc, extractCount, prev, last,
                   emptied, started, edits, running, genCalls>>

\* the day refresh_recent_backlinks is called, 2 January 2024
Today == 2

\* the values of days
RefreshDays == {30, 1, 0}

\* date >= datetime.now() - timedelta(days=days), now being noon of Today
\* and an entry's date its midnight: in half days
IsRecent(stem, days) == 2 * DateOf(stem) >= 2 * Today + 1 - 2 * days

\* the section refresh_recent_backlinks appends (lines 546-557): no closing
\* line when there is neither a related entry nor a tag
RefreshSection(related, topic_tags) ==
    [related |-> related, tags |-> topic_tags,
     note |-> IF related # <<>> \/ topic_tags # <<>>
              THEN "*Thematic resonance with your broader explorations.*" ELSE ""]

\* the loop of refresh_recent_backlinks from entry i on, in the directory fs,
\* up to the call of find_related_entries for an entry or to the return: an
\* entry whose read raises or gives the error text is recorded
RECURSIVE RefreshFrom(_, _, _)
RefreshFrom(fs, tool, i) ==
    IF i > Len(tool.recent)
    THEN [IdleTask EXCEPT !.op = "tool", !.pc = "done",
                          !.tool = [tool EXCEPT !.step = "returned", !.at = i]]
    ELSE LET stem == tool.recent[i]
             content == ReadEntry(fs[stem])
         IN  IF ReadRaises(fs[stem]) \/ StartsWithError(content)
             THEN RefreshFrom(fs, [tool EXCEPT !.errors = Append(@, stem)], i + 1)
             ELSE [IdleTask EXCEPT !.pc = "lookup", !.op = "find",
                                   !.stage = "current", !.exclude = stem,
                                   !.max = DefaultMaxRelated,
                                   !.pendC = content, !.pendId = stem,
                                   !.tool = [tool EXCEPT !.step = "related", !.at = i,
                                                         !.date = stem,
                                                         !.content = content]]

\* the task goes on with the loop from entry i on
RefreshGoOn(t, fs, tool, i) ==
    /\ tk' = [tk EXCEPT ![t] = RefreshFrom(fs, tool, i)]
    /\ running' = IF RefreshFrom(fs, tool, i).pc = "lookup" THEN t ELSE NoTask

\* a caller awaits refresh_recent_backlinks(days)
StartRefresh(t, days) ==
    /\ CanStart(t, TRUE)
    /\ started' = started + 1
    /\ LET entries == GetAllEntries(files, globOrder)
           recent_entries == SelectSeq(entries, LAMBDA st : IsRecent(st, days))
           tool == [name |-> "refresh", date |-> "", step |-> "returned",
                    content |-> ShortText, related |-> <<>>, tags |-> <<>>,
                    days |-> days, recent |-> recent_entries, at |-> 0,
                    updated_count |-> 0,
                    errors |-> <<>>, before |-> files]
       IN  RefreshGoOn(t, files, tool, 1)
    /\ UNCHANGED <<files, globOrder, cache, cacheSrc, extractCount, prev, last,
                   emptied, edits, genCalls>>

\* the entry counted as updated whether or not it was written
RefreshWriteCounted(t, content, related, themes, ok) ==
    LET tool == tk[t].tool
        written == AppendSection(content, RefreshSection(related, TopicTags(themes)))
        fs == IF ok THEN [files EXCEPT ![tool.date] = TextFile(written)] ELSE files
    IN  /\ files' = fs
        /\ RefreshGoOn(t, fs, [tool EXCEPT !.updated_count = @ + 1], tool.at + 1)

\* the entry is written, or write_text raises: lines 559-566
RefreshWrite(t, content, related, themes, ok) ==
    LET tool == tk[t].tool
        written == AppendSection(content, RefreshSection(related, TopicTags(themes)))
        fs == IF ok THEN [files EXCEPT ![tool.date] = TextFile(written)] ELSE files
    IN  /\ files' = fs
        /\ RefreshGoOn(t, fs,
                       IF ok THEN [tool EXCEPT !.updated_count = @ + 1]
                       ELSE [tool EXCEPT !.errors = Append(@, tool.date)],
                       tool.at + 1)

\* find_related_entries has returned to refresh_recent_backlinks: the old
\* sections are removed and the themes of the entry extracted
RefreshTags(t) ==
    /\ running = NoTask
    /\ tk[t].pc = "done"
    /\ tk[t].tool.name = "refresh"
    /\ tk[t].tool.step = "related"
    /\ LET content == RemoveBacklinks(tk[t].tool.content)
           related == tk[t].result
       IN  IF ServerAnalysisLen(content) < MinAnalysisLen
           THEN /\ \E ok \in BOOLEAN : RefreshWrite(t, content, related, <<>>, ok)
                /\ UNCHANGED genCalls
           ELSE /\ tk' = [tk EXCEPT ![t].pc = "awaitRefresh",
                                    ![t].tool = [@ EXCEPT !.content = content,
                                                          !.related = related,
                                                          !.step = "tags"]]
                /\ genCalls' = Bump(genCalls, <<tk[t].tool.date, content>>)
                /\ UNCHANGED <<files, running>>
    /\ UNCHANGED <<globOrder, cache, cacheSrc, extractCount, prev, last,
                   emptied, started, edits>>

\* the backend answers the extraction of refresh_recent_backlinks
RefreshTagsReturn(t) ==
    /\ running = NoTask
    /\ tk[t].pc = "awaitRefresh"
    /\ \E response_text \in Answers(tk[t].tool.content), ok \in BOOLEAN :
          RefreshWrite(t, tk[t].tool.content, tk[t].tool.related,
                       ParseThemes(response_text), ok)
    /\ UNCHANGED <<globOrder, cache, cacheSrc, extractCount, prev, last,
                   emptied, started, edits, genCalls>>

\* call_ollama raises: extract_themes_and_topics returns []
RefreshTagsFail(t) ==
    /\ running = NoTask
    /\ tk[t].pc = "awaitRefresh"
    /\ \E ok \in BOOLEAN :
          RefreshWrite(t, tk[t].tool.content, tk[t].tool.related, <<>>, ok)
    /\ UNCHANGED <<globOrder, cache, cacheSrc, extractCount, prev, last,
                   emptied, started, edits, genCalls>>

\* an exception raised while the entry is analysed reaches the except clause
\* of the loop (lines 568-570): out of find_related_entries, or out of the
\* extraction when the reply is not a string
RefreshCatch(t) ==
    /\ running = NoTask
    /\ tk[t].tool.name = "refresh"
    /\ \/ tk[t].pc = "raised" /\ tk[t].tool.step = "related"
       \/ tk[t].pc = "awaitRefresh"
    /\ RefreshGoOn(t, files,
                   [tk[t].tool EXCEPT !.errors = Append(@, tk[t].tool.date)],
                   tk[t].tool.at + 1)
    /\ UNCHANGED <<files, globOrder, cache, cacheSrc, extractCount, prev, last,
                   emptied, started, edits, genCalls>>

\* the directories the tools start from
StoreCorpora ==
    { JobCorpus,
      [st \in Stems |-> CASE st = "2024-01-01" -> TextFile(JobA)
                          [] st = "2024-01-02" -> Absent
                          [] st = "2024-1-2" -> Absent],
      [st \in Stems |-> CASE st = "2024-01-01" -> Undecodable
                          [] st = "2024-01-02" -> TextFile(JobB)
                          [] st = "2024-1-2" -> Absent],
      [st \in Stems |-> CASE st = "2024-01-01" -> TextFile(JobA)
                          [] st = "2024-01-02" -> Unreadable
                          [] st = "2024-1-2" -> TextFile(JobB)],
      NoEntries }

InitStore ==
    /\ files \in StoreCorpora
    /\ globOrder = <<"2024-01-01", "2024-01-02", "2024-1-2">>
    /\ cache = [k \in {} |-> <<>>]
    /\ cacheSrc = [k \in {} |-> Source(ShortText, "")]
    /\ tk = [t \in Tasks |-> IdleTask]
    /\ running = NoTask
    /\ extractCount = [k \in AllKeys |-> 0]
    /\ prev = [valid |-> FALSE, content |-> ShortText, id |-> "", themes |-> <<>>,
               gens |-> 0]
    /\ last = NoCall
    /\ emptied = {}
    /\ started = 0
    /\ edits = 0
    /\ genCalls = NoGenCalls
    /\ fn = NoFn

\* the tools that write entries, called by a single caller at a time. Inside
\* find_related_entries the backend answers, with themes or with a reply that
\* is no string; a backend that raises there only leaves the entry without
\* themes (SpecErr has that case). The extractions of the tools themselves
\* fail in ToolTagsFail, RefreshTagsFail and CreateFail.
NextStore ==
    \/ \E t \in Tasks, date \in CreateDates : StartCreate(t, date) /\ UNCHANGED fn
    \/ \E t \in Tasks, resp \in PromptAnswers : CreateReturn(t, resp) /\ UNCHANGED fn
    \/ \E t \in Tasks : CreateFail(t) /\ UNCHANGED fn
    \/ \E t \in Tasks : CreateMalformed(t) /\ UNCHANGED fn
    \/ \E t \in Tasks, days \in RefreshDays : StartRefresh(t, days) /\ UNCHANGED fn
    \/ \E t \in Tasks : RefreshTags(t) /\ UNCHANGED fn
    \/ \E t \in Tasks : RefreshTagsReturn(t) /\ UNCHANGED fn
    \/ \E t \in Tasks : RefreshTagsFail(t) /\ UNCHANGED fn
    \/ \E t \in Tasks : RefreshCatch(t) /\ UNCHANGED fn
    \/ \E t \in Tasks, name \in ToolNames :
          StartTool(t, name, "2024-01-02") /\ UNCHANGED fn
    \/ \E t \in Tasks : ServerLookup(t) /\ UNCHANGED fn
    \/ \E t \in Tasks : \E response_text \in Answers(tk[t].pendC) :
          BackendReturn(t, response_text) /\ UNCHANGED ext
    \/ \E t \in Tasks : BackendMalformed(t) /\ UNCHANGED ext
    \/ \E t \in Tasks : Scan(t) /\ UNCHANGED ext
    \/ \E t \in Tasks : ToolTags(t) /\ UNCHANGED fn
    \/ \E t \in Tasks : ToolTagsReturn(t) /\ UNCHANGED fn
    \/ \E t \in Tasks : ToolTagsFail(t) /\ UNCHANGED fn
    \/ \E t \in Tasks : ToolSummaryDone(t) /\ UNCHANGED fn

SpecStore == InitStore /\ [][NextStore]_vars

----------------------------------------------------------------------------
(* Requests over a directory that does not change: find_related_entries    *)
(* for an entry of the directory, and generate_memory_trace                *)

\* sorted(entries, key=lambda x: x[0]): stable, oldest first
RECURSIVE InsertOldestFirst(_, _)
InsertOldestFirst(sorted, stem) ==
    IF sorted = <<>> THEN <<stem>>
    ELSE IF DateOf(Head(sorted)) <= DateOf(stem)
         THEN <<Head(sorted)>> \o InsertOldestFirst(Tail(sorted), stem)
         ELSE <<stem>> \o sorted

RECURSIVE SortOldestFirst(_, _)
SortOldestFirst(todo, sorted) ==
    IF todo = <<>> THEN sorted
    ELSE SortOldestFirst(Tail(todo), InsertOldestFirst(sorted, Head(todo)))

\* content.startswith("Error") in generate_memory_trace: true of the error
\* text of read_entry
StartsWithErrorWord(text) == text.err

\* the loop of generate_memory_trace (lines 27-42) from entry i on, up to
\* the call of get_themes_cached for an entry or to the end of the loop
RECURSIVE TraceFrom(_, _)
TraceFrom(tool, i) ==
    IF i > Len(tool.entries)
    THEN [IdleTask EXCEPT !.op = "trace", !.pc = "done",
                          !.tool = [tool EXCEPT !.step = "returned", !.at = i]]
    ELSE LET stem == tool.entries[i]
             content == ReadEntry(files[stem])
         IN  IF ReadRaises(files[stem])
             THEN [IdleTask EXCEPT !.op = "trace", !.pc = "raised",
                                   !.error = "UnicodeDecodeError", !.cause = "storage",
                                   !.tool = [tool EXCEPT !.step = "returned", !.at = i]]
             ELSE IF StartsWithErrorWord(content)
             THEN TraceFrom(tool, i + 1)
             ELSE [IdleTask EXCEPT !.op = "get", !.pc = "lookup",
                                   !.pendC = content, !.pendId = stem,
                                   !.tool = [tool EXCEPT !.step = "themes", !.at = i,
                                                         !.analysed = Append(@, stem)]]

\* a caller awaits generate_memory_trace(get_all_entries(), ...)
StartTrace(t) ==
    /\ CanStart(t, TRUE)
    /\ started' = started + 1
    /\ LET tool == [name |-> "trace", step |-> "themes", at |-> 0,
                    entries |-> SortOldestFirst(GetAllEntries(files, globOrder), <<>>),
                    analysed |-> <<>>]
       IN  /\ tk' = [tk EXCEPT ![t] = TraceFrom(tool, 1)]
           /\ running' = IF TraceFrom(tool, 1).pc = "lookup" THEN t ELSE NoTask
    /\ UNCHANGED <<files, globOrder, cache, cacheSrc, extractCount, prev, last,
                   emptied, edits, genCalls>>

\* get_themes_cached has returned to generate_memory_trace: the next entry
TraceNext(t) ==
    /\ running = NoTask
    /\ tk[t].pc = "done"
    /\ tk[t].tool.name = "trace"
    /\ tk[t].tool.step = "themes"
    /\ tk' = [tk EXCEPT ![t] = TraceFrom(tk[t].tool, tk[t].tool.at + 1)]
    /\ running' = IF TraceFrom(tk[t].tool, tk[t].tool.at + 1).pc = "lookup"
                  THEN t ELSE NoTask
    /\ UNCHANGED <<files, globOrder, cache, cacheSrc, extractCount, prev, last,
                   emptied, started, edits, genCalls>>

\* get_themes_cached of analysis.py; genCalls counts the extractions sent
\* to the backend for each text
CountedLookup(t) ==
    /\ Lookup(t)
    /\ genCalls' = IF tk'[t].pc = "await" THEN Bump(genCalls, tk[t].pendC)
                   ELSE genCalls

\* the entries that hold a text
TextStems == {st \in Stems : files[st].kind = "text"}

InitTrace ==
    /\ InitEngine
    /\ genCalls = NoGenCalls
    /\ fn = NoFn

\* requests of a single caller at a time; no entry is edited
NextTrace ==
    \/ \E t \in Tasks : \E st \in TextStems :
          StartFindRelated(t, files[st].content, st, DefaultMaxRelated, TRUE)
            /\ UNCHANGED ext
    \/ \E t \in Tasks : StartTrace(t) /\ UNCHANGED fn
    \/ \E t \in Tasks : TraceNext(t) /\ UNCHANGED fn
    \/ \E t \in Tasks : CountedLookup(t) /\ UNCHANGED fn
    \/ \E t \in Tasks : \E response_text \in Answers(tk[t].pendC) :
          BackendReturn(t, response_text) /\ UNCHANGED ext
    \/ \E t \in Tasks : BackendFail(t) /\ UNCHANGED ext
    \/ \E t \in Tasks : Scan(t) /\ UNCHANGED ext

SpecTrace == InitTrace /\ [][NextTrace]_vars

----------------------------------------------------------------------------
(* Properties *)

SameCall == prev.valid /\ last.valid /\ prev.content = last.content /\ prev.id = last.id

\* C1 (Spec): when get_themes_cached is called twice in sequence with the
\* same text and identifier, the second call is a cache hit that returns the
\* themes of the first and calls the backend no more, so both calls together
\* make at most one backend call.
C1_CacheIdempotence ==
    SameCall => /\ last.themes = prev.themes
                /\ last.hit
                /\ last.gens = 0
                /\ prev.gens + last.gens <= 1

C1_Witness == SameCall /\ prev.gens = 1 /\ prev.themes # <<>> /\ last.hit

\* C2 as claimed (SpecConc): in every interleaving the extractor is invoked at most
\* once for each cache key.
C2_AtMostOncePerKey == \A k \in AllKeys : extractCount[k] <= 1

\* C2 amended (SpecConc): the extractor is not invoked for a key that is already in
\* the cache, so only calls that found the key absent before the first insert
\* invoke it: at most one invocation per key for each request in flight.
C2_NoExtractionOnceCached ==
    [][\A k \in AllKeys :
         /\ k \in DOMAIN cache => extractCount'[k] = extractCount[k]
         /\ extractCount'[k] <= NumTasks]_vars

C2_Witness ==
    \E k \in AllKeys : k \in DOMAIN cache /\ extractCount[k] = 2 /\ cache[k] # <<>>

SameIdCalls == prev.valid /\ last.valid /\ prev.id = last.id

NotServedFromPrev ==
    /\ CacheKey(prev.content, prev.id) # last.key
    /\ ~(last.hit /\ last.src.content = prev.content)

\* C3 as claimed (Spec): two texts for the same identifier that differ in
\* length or in their first 100 characters have different cache keys, so the
\* call for the second is not served from the entry of the first.
C3_DifferentPrefixDifferentKey ==
    (SameIdCalls /\ (prev.content.len # last.content.len
                       \/ prev.content.prefix # last.content.prefix))
        => NotServedFromPrev

\* C3 amended (Spec): two texts for the same identifier that differ in length
\* or in the hash of their first 100 characters have different cache keys, so
\* the call for the second is not served from the entry of the first.
C3_DifferentHashDifferentKey ==
    (SameIdCalls /\ (prev.content.len # last.content.len
                       \/ prev.content.prefix % HashSpace # last.content.prefix % HashSpace))
        => NotServedFromPrev

C3_Witness ==
    /\ SameIdCalls
    /\ prev.content.len = last.content.len
    /\ prev.content.prefix % HashSpace # last.content.prefix % HashSpace
    /\ prev.gens = 1
    /\ ~last.hit /\ last.gens = 1

\* C4 as claimed (Spec): get_themes_cached never returns themes computed from a
\* text other than the one passed in.
C4_NeverServesOtherText == last.valid => last.src.content = last.content

\* C4 amended (Spec): the themes get_themes_cached returns were computed for the
\* same identifier from a text of the same length whose first 100 characters
\* have the same hash; a text edited without changing either is served the
\* themes of the text before the edit.
C4_ServesSameKeyText ==
    last.valid => /\ last.src.id = last.id
                  /\ last.src.content.len = last.content.len
                  /\ last.src.content.prefix % HashSpace = last.content.prefix % HashSpace
                  /\ ~last.hit => last.src.content = last.content

C4_Witness ==
    /\ last.valid /\ last.hit
    /\ last.src.content # last.content
    /\ last.src.content.prefix = last.content.prefix
    /\ last.themes # <<>>

\* C5 (Spec): once get_themes_cached(c, id) has returned no theme, every
\* later call with the same c and id is a cache hit that returns no theme and
\* makes no backend call.
C5_EmptyResultCached ==
    (last.valid /\ last.wasEmpty) => /\ last.themes = <<>>
                                     /\ last.hit
                                     /\ last.gens = 0

C5_Witness ==
    /\ last.valid /\ last.wasEmpty /\ last.hit
    /\ AnalysisLen(last.content) >= MinAnalysisLen

FindDone(t) == tk[t].op = "find" /\ tk[t].pc = "done"

\* C6 (Spec): with a non-empty exclude_date, find_related_entries neither reads
\* the entry of that name nor asks for its themes as a candidate, and its
\* result does not hold the backlink [[exclude_date]], although the
\* enumeration holds the entry.
C6_SelfExclusion ==
    \A t \in Tasks :
        (tk[t].op = "find" /\ tk[t].exclude \notin {None, ""}) =>
            /\ tk[t].exclude \notin Range(tk[t].reads)
            /\ tk[t].exclude \notin Range(tk[t].cands)
            /\ \A i \in 1..Len(tk[t].scores) : tk[t].scores[i].stem # tk[t].exclude
            /\ "[[" \o tk[t].exclude \o "]]" \notin Range(tk[t].result)

C6_Witness ==
    \E t \in Tasks :
        /\ FindDone(t)
        /\ tk[t].exclude = "2024-01-02"
        /\ "2024-01-02" \in Range(tk[t].entries)
        /\ files["2024-01-02"].kind = "text"
        /\ Len(tk[t].result) = 2

\* the similarity of a candidate is above 0.08
Above(sc) == sc.num * 100 > 8 * sc.den

\* the candidates of a request whose similarity was computed, by position in
\* the order of encounter
KeptBefore(t, i) ==
    {j \in 1..Len(tk[t].sims) :
        /\ Above(tk[t].sims[j])
        /\ \/ tk[t].sims[j].num * tk[t].sims[i].den > tk[t].sims[i].num * tk[t].sims[j].den
           \/ /\ tk[t].sims[j].num * tk[t].sims[i].den = tk[t].sims[i].num * tk[t].sims[j].den
              /\ j < i}

\* C7 (Spec): a candidate whose similarity is at or below 0.08 is not in the
\* result of find_related_entries, and a candidate above 0.08 that has fewer
\* than max_related kept candidates ranked before it is in the result.
C7_ThresholdExclusion ==
    \A t \in Tasks : FindDone(t) =>
        \A i \in 1..Len(tk[t].sims) :
            LET sc == tk[t].sims[i]
                link == "[[" \o sc.stem \o "]]"
            IN  /\ ~Above(sc) => link \notin Range(tk[t].result)
                /\ (Above(sc) /\ Cardinality(KeptBefore(t, i)) < tk[t].max)
                      => link \in Range(tk[t].result)

C7_Witness ==
    \E t \in Tasks :
        /\ FindDone(t)
        /\ \E i, j \in 1..Len(tk[t].sims) :
              /\ ~Above(tk[t].sims[i])
              /\ Above(tk[t].sims[j])
              /\ "[[" \o tk[t].sims[j].stem \o "]]" \in Range(tk[t].result)

\* position of a stem in the enumeration of a request
Encounter(t, stem) == CHOOSE i \in 1..Len(tk[t].entries) : tk[t].entries[i] = stem

\* C8 (Spec): the result of find_related_entries lists kept candidates, each
\* once, in non-increasing order of similarity, candidates of equal similarity
\* in the order of encounter; candidates scoring 1, 2/3 and 1/2 are returned in
\* that order.
C8_Ranking ==
    \A t \in Tasks : FindDone(t) =>
        LET ranked == tk[t].scores
            res == tk[t].result
        IN  /\ Len(res) <= Len(ranked)
            /\ {ranked[i] : i \in 1..Len(ranked)}
                 = {tk[t].sims[i] : i \in {j \in 1..Len(tk[t].sims) : Above(tk[t].sims[j])}}
            /\ \A i, j \in 1..Len(ranked) : i # j => ranked[i].stem # ranked[j].stem
            /\ \A i \in 1..Len(res) : res[i] = "[[" \o ranked[i].stem \o "]]"
            /\ \A i, j \in 1..Len(ranked) : i < j =>
                  /\ ranked[i].num * ranked[j].den >= ranked[j].num * ranked[i].den
                  /\ ranked[i].num * ranked[j].den = ranked[j].num * ranked[i].den
                        => Encounter(t, ranked[i].stem) < Encounter(t, ranked[j].stem)
            /\ (/\ Len(ranked) = 3 /\ tk[t].max >= 3
                /\ \E s1, s2, s3 \in Stems :
                      {ranked[i] : i \in 1..3}
                         = {[num |-> 2, den |-> 2, stem |-> s1],
                            [num |-> 2, den |-> 3, stem |-> s2],
                            [num |-> 1, den |-> 2, stem |-> s3]})
                  => /\ ranked[1].den = 2 /\ ranked[1].num = 2
                     /\ ranked[2].den = 3
                     /\ ranked[3].num = 1
                     /\ Len(res) = 3

C8_Witness ==
    \E t \in Tasks :
        /\ FindDone(t)
        /\ tk[t].cur = {"a", "b"}
        /\ tk[t].entries[1] = "2024-1-2"
        /\ tk[t].result = <<"[[2024-01-01]]", "[[2024-01-02]]", "[[2024-1-2]]">>

\* two kept candidates of equal similarity
C8_TieReached ==
    \E t \in Tasks :
        /\ FindDone(t)
        /\ Len(tk[t].result) >= 2
        /\ \E i \in 1..(Len(tk[t].scores) - 1) :
              tk[t].scores[i].num * tk[t].scores[i + 1].den
                 = tk[t].scores[i + 1].num * tk[t].scores[i].den

IsPrefixOfRanked(t, n) ==
    /\ n <= Len(tk[t].scores)
    /\ Len(tk[t].result) = n
    /\ \A i \in 1..n : tk[t].result[i] = "[[" \o tk[t].scores[i].stem \o "]]"

\* C9 as claimed (Spec): for any integer max_related the result holds at most
\* max_related backlinks (none when max_related is negative) and is a prefix of
\* the ranked candidates.
C9_AtMostMaxRelated ==
    \A t \in Tasks : (FindDone(t) /\ tk[t].cur # {}) =>
        /\ Len(tk[t].result) <= (IF tk[t].max > 0 THEN tk[t].max ELSE 0)
        /\ IsPrefixOfRanked(t, Len(tk[t].result))

\* C9 amended (Spec): the result is a prefix of the ranked candidates; it holds
\* the first max_related of them (all if there are fewer) when max_related is
\* not negative, and all but the last -max_related of them when it is negative.
C9_SlicePrefix ==
    \A t \in Tasks : (FindDone(t) /\ tk[t].cur # {}) =>
        LET n == Len(tk[t].scores)
            k == tk[t].max
        IN  IF k >= 0
            THEN /\ IsPrefixOfRanked(t, IF k < n THEN k ELSE n)
                 /\ Len(tk[t].result) <= k
            ELSE IsPrefixOfRanked(t, IF n + k > 0 THEN n + k ELSE 0)

C9_Witness ==
    \E t \in Tasks :
        /\ FindDone(t)
        /\ tk[t].max = 1
        /\ Len(tk[t].scores) = 3
        /\ Len(tk[t].result) = 1

\* C10 (Spec): when the current text has no theme, find_related_entries returns
\* the empty list without enumerating the directory, reading an entry or
\* calling the backend again; a request scans only with a non-empty set of
\* current themes.
C10_EmptyThemeShortCircuit ==
    \A t \in Tasks : tk[t].op = "find" =>
        /\ (tk[t].pc = "done" /\ tk[t].cur = {}) =>
              /\ tk[t].result = <<>>
              /\ tk[t].enums = 0
              /\ tk[t].reads = <<>>
              /\ tk[t].cands = <<>>
              /\ tk[t].gens <= 1
        /\ (tk[t].enums > 0 \/ tk[t].reads # <<>>) => tk[t].cur # {}

C10_Witness ==
    \E t \in Tasks :
        /\ FindDone(t)
        /\ tk[t].cur = {}
        /\ tk[t].gens = 1
        /\ \E st \in Stems : files[st].kind = "text" /\ st # tk[t].exclude

\* C11 (SpecFn): for non-empty theme sets A and B of at most 5 tokens the
\* similarity of find_related_entries is the same fraction both ways, lies
\* between 0 and 1 with a non-zero denominator, and is 1 for a set with itself.
C11_SimilaritySymmetryRange ==
    (fn.op = "similarity" /\ fn.done) =>
        /\ fn.ab.num * fn.ba.den = fn.ba.num * fn.ab.den
        /\ fn.ab.den > 0 /\ fn.ba.den > 0
        /\ 0 <= fn.ab.num /\ fn.ab.num <= fn.ab.den
        /\ fn.ab.num = Cardinality(fn.a \cap fn.b)
        /\ fn.ab.den = Cardinality(fn.a \cup fn.b)
        /\ fn.aa.num = fn.aa.den /\ fn.aa.den > 0

C11_Witness ==
    /\ fn.op = "similarity" /\ fn.done
    /\ Cardinality(fn.a) = 5 /\ Cardinality(fn.b) = 2
    /\ fn.ab.num = 1 /\ fn.ab.den = 6

\* the theme a piece of the response stands for: the piece without the
\* whitespace around it, in lower case; "" when nothing is left
ThemeOfPiece(piece) ==
    CASE piece = "a" -> "a"
      [] piece = " B\n" -> "b"
      [] OTHER -> ""

\* C12 (SpecFn): for every backend response extract_themes_and_topics returns
\* at most 5 themes: the first 5 non-empty pieces of the comma-separated
\* response, in the order of the response, each without surrounding whitespace
\* and in lower case.
C12_ThemeCap ==
    (fn.op = "parse" /\ fn.done) =>
        LET kept == SelectSeq(fn.pieces, LAMBDA piece : ThemeOfPiece(piece) # "")
        IN  /\ Len(fn.themes) <= 5
            /\ Len(fn.themes) = (IF Len(kept) < 5 THEN Len(kept) ELSE 5)
            /\ \A i \in 1..Len(fn.themes) :
                  /\ fn.themes[i] = ThemeOfPiece(kept[i])
                  /\ fn.themes[i] \in {"a", "b"}

C12_Witness ==
    /\ fn.op = "parse" /\ fn.done
    /\ fn.pieces = <<" B\n", "", "a", "a", " B\n", "a", " B\n">>
    /\ fn.themes = <<"b", "a", "a", "b", "a">>

\* C13 (Spec): a call of extract_themes_and_topics (a cache miss of
\* get_themes_cached) makes no backend call and returns no theme when the
\* stripped analysis content (the Brain Dump when longer than 50, else the text
\* without its links section) is shorter than 20 characters, and makes exactly
\* one backend call otherwise.
C13_ExtractorCallCount ==
    (last.valid /\ ~last.hit) =>
        LET c == last.content
            n == IF c.brain > 50 THEN c.brain ELSE c.len - c.links - c.pad
        IN  IF n < 20
            THEN last.gens = 0 /\ last.themes = <<>>
            ELSE last.gens = 1

C13_Witness ==
    /\ prev.valid /\ prev.gens = 1
    /\ last.valid /\ ~last.hit
    /\ last.content.len >= 20
    /\ last.content.len - last.content.links - last.content.pad < 20
    /\ last.gens = 0

\* C16 as claimed (SpecFn): for every response and every count,
\* generate_reflection_prompts returns at most count strings (none when count
\* is negative), the first count accepted lines in response order.
C16_AtMostCount ==
    (fn.op = "prompts" /\ fn.done) =>
        /\ Len(fn.prompts) <= (IF fn.count > 0 THEN fn.count ELSE 0)
        /\ Len(fn.prompts) <= Len(fn.accepted)
        /\ \A i \in 1..Len(fn.prompts) : fn.prompts[i] = fn.accepted[i]

\* C16 amended (SpecFn): generate_reflection_prompts returns a prefix of the
\* accepted lines in response order: the first count of them (all if there
\* are fewer) when count is not negative, so at most count strings, and all
\* but the last -count of them when count is negative.
C16_PromptCountBound ==
    (fn.op = "prompts" /\ fn.done) =>
        LET n == Len(fn.accepted)
            k == fn.count
            m == IF k >= 0 THEN (IF k < n THEN k ELSE n)
                 ELSE (IF n + k > 0 THEN n + k ELSE 0)
        IN  /\ Len(fn.prompts) = m
            /\ k >= 0 => Len(fn.prompts) <= k
            /\ \A i \in 1..m : fn.prompts[i] = fn.accepted[i]

C16_Witness ==
    /\ fn.op = "prompts" /\ fn.done
    /\ Len(fn.lines) = 10
    /\ fn.count = 3
    /\ fn.accepted = <<"q?", "r?", "s?", "t?", "u?">>
    /\ fn.prompts = <<"q?", "r?", "s?">>

\* C14 (SpecErr): however the backend call fails, extract_themes_and_topics
\* returns no theme and generate_reflection_prompts returns the empty list;
\* no request ends with an exception that comes from the generation client.
C14_GenerationFailuresAbsorbed ==
    \A t \in Tasks : ~(tk[t].pc = "raised" /\ tk[t].cause = "generation")

\* C15 (SpecErr): whatever the reason a corpus entry cannot be read during
\* find_related_entries, the request goes on to the remaining entries and
\* returns: no request ends with an exception that comes from reading an
\* entry.
C15_ReadFailuresSkipped ==
    \A t \in Tasks : ~(tk[t].pc = "raised" /\ tk[t].cause = "storage")

\* C19 (Spec): find_related_entries computes a similarity only for a
\* non-empty set of current themes and a non-empty set of candidate themes
\* (the candidate set has den + num - |current| elements), so the union it
\* divides by is never empty, and every entry it returns is one whose
\* similarity was computed.
C19_NoEmptyOperand ==
    \A t \in Tasks : tk[t].op = "find" =>
        /\ \A i \in 1..Len(tk[t].sims) :
              /\ Cardinality(tk[t].cur) >= 1
              /\ tk[t].sims[i].den >= 1
              /\ tk[t].sims[i].den + tk[t].sims[i].num - Cardinality(tk[t].cur) >= 1
        /\ \A i \in 1..Len(tk[t].result) :
              \E j \in 1..Len(tk[t].sims) :
                  tk[t].result[i] = "[[" \o tk[t].sims[j].stem \o "]]"

C19_Witness ==
    \E t \in Tasks :
        /\ FindDone(t)
        /\ \E st \in Range(tk[t].cands) :
              \A j \in 1..Len(tk[t].sims) : tk[t].sims[j].stem # st
        /\ tk[t].sims # <<>>
        /\ tk[t].result # <<>>

\* C20 (SpecFn): when an entry has a Brain Dump section, under any of its
\* headers and so under the header the template writes, whose stripped text
\* without the placeholder is longer than 50 characters, theme extraction
\* sends that section alone to the backend; otherwise it sends the entry
\* without its trailing links section.
C20_BrainDumpPriority ==
    (fn.op = "analysis" /\ fn.done) =>
        LET c == fn.content
            written == IF c.placeholder THEN c.brain - 49 ELSE c.brain
        IN  IF c.header # "none" /\ written > 50
            THEN fn.sent = [part |-> "brain dump", len |-> written]
            ELSE fn.sent = [part |-> "entry without links", len |-> c.len - c.links]

\* C18 (SpecTool): no tool asks the backend twice for the themes of the same
\* text of the same entry.
C18_AtMostOneExtraction ==
    \A key \in DOMAIN genCalls : genCalls[key] <= 1

\* the candidates of a request that share all themes with the current text
\* and were met before the i-th one
EqualBefore(t, i) ==
    {j \in 1..(i - 1) : tk[t].sims[j].num = tk[t].sims[j].den}

\* C17 as claimed (SpecTool): a candidate whose theme set equals the non-empty
\* current theme set is returned first.
C17_ReturnedFirst ==
    \A t \in Tasks : (FindDone(t) /\ tk[t].cur # {}) =>
        \A i \in 1..Len(tk[t].sims) :
            (tk[t].sims[i].num = tk[t].sims[i].den) =>
                /\ tk[t].result # <<>>
                /\ tk[t].result[1] = "[[" \o tk[t].sims[i].stem \o "]]"

\* C17 amended (SpecTool): with the two entries 2024-01-01 and 2024-01-02 and a
\* backend that gave "job, anxiety, interview" for the current text and for
\* 2024-01-01, find_related_entries with exclude_date "2024-01-02" and the
\* default max_related returns exactly [[2024-01-01]]; in general a candidate
\* whose theme set equals the non-empty current theme set has similarity 1 and
\* is ranked after the candidates of similarity 1 met before it and before
\* every other one, and it is returned at that rank when the rank is within
\* the slice that max_related cuts.
C17_EqualThemesRankedFirst ==
    \A t \in Tasks : (FindDone(t) /\ tk[t].cur # {}) =>
        /\ (/\ tk[t].exclude = "2024-01-02"
            /\ tk[t].max = 6
            /\ tk[t].cur = {"job", "anxiety", "interview"}
            /\ \E key \in DOMAIN cache :
                  /\ cacheSrc[key] = [content |-> JobA, id |-> "2024-01-01"]
                  /\ cache[key] = <<"job", "anxiety", "interview">>)
              => tk[t].result = <<"[[2024-01-01]]">>
        /\ \A i \in 1..Len(tk[t].sims) :
              LET sc == tk[t].sims[i]
                  rank == Cardinality(EqualBefore(t, i)) + 1
                  n == Cardinality({j \in 1..Len(tk[t].sims) : Above(tk[t].sims[j])})
                  cut == IF tk[t].max >= 0
                         THEN (IF tk[t].max < n THEN tk[t].max ELSE n)
                         ELSE (IF n + tk[t].max > 0 THEN n + tk[t].max ELSE 0)
              IN  (sc.num = sc.den) =>
                     /\ sc.num = Cardinality(tk[t].cur)
                     /\ tk[t].scores[rank].stem = sc.stem
                     /\ Len(tk[t].result) = cut
                     /\ rank <= cut => tk[t].result[rank] = "[[" \o sc.stem \o "]]"
                     /\ rank > cut => "[[" \o sc.stem \o "]]" \notin Range(tk[t].result)

C17_Witness ==
    \E t \in Tasks :
        /\ FindDone(t)
        /\ tk[t].tool.name = "none"
        /\ tk[t].exclude = "2024-01-02"
        /\ tk[t].max = 6
        /\ tk[t].cur = {"job", "anxiety", "interview"}
        /\ files["2024-01-01"] = TextFile(JobA)
        /\ files["2024-01-02"].kind = "text"
        /\ files["2024-1-2"].kind = "absent"
        /\ tk[t].reads = <<"2024-01-01">>
        /\ tk[t].result = <<"[[2024-01-01]]">>

\* C29 (SpecFn): with at most five themes on each side, a candidate with a
\* non-empty theme list is kept by the threshold exactly when it shares a theme
\* with the current themes; the smallest similarity above zero is 1/9 and it is
\* kept; a candidate without themes is not scored.
C29_ThresholdKeepsCommonTheme ==
    (fn.op = "keep" /\ fn.done) =>
        LET entry_themes == {fn.themes[i] : i \in 1..Len(fn.themes)}
            common == Cardinality(fn.cur \cap entry_themes)
            all == Cardinality(fn.cur \cup entry_themes)
        IN  /\ entry_themes = {} => fn.sims = <<>> /\ fn.scores = <<>>
            /\ entry_themes # {} =>
                  /\ Len(fn.sims) = 1
                  /\ fn.sims[1].num = common /\ fn.sims[1].den = all
                  /\ (fn.scores # <<>>) <=> (common >= 1)
                  /\ common >= 1 => 9 * common >= all /\ 100 * common > 8 * all
                  /\ fn.scores # <<>> => fn.scores = fn.sims

C29_Witness ==
    /\ fn.op = "keep" /\ fn.done
    /\ Cardinality(fn.cur) = 5 /\ Len(fn.themes) = 5
    /\ fn.sims = <<[num |-> 1, den |-> 9, stem |-> "2024-01-01"]>>
    /\ fn.scores = fn.sims

\* C30 (SpecErr): find_related_entries passes over an entry as unreadable
\* (it reads it and goes to the next one without asking for its themes) only
\* when the read of its file failed.
C30_OnlyFailedReadsSkipped ==
    [][\A t \in Tasks :
          (/\ tk[t].pc = "scan" /\ tk'[t].pc = "scan"
           /\ tk'[t].idx = tk[t].idx + 1
           /\ Len(tk'[t].reads) = Len(tk[t].reads) + 1)
             => files[tk[t].entries[tk[t].idx]].kind # "text"]_vars

\* C22 (SpecConc): a key of the theme cache is never removed and the themes
\* stored for it never change, whatever the interleaving of the requests in
\* flight and the answers of the backend.
C22_CacheStable ==
    [][\A key \in DOMAIN cache :
          key \in DOMAIN cache' /\ cache'[key] = cache[key]]_vars

\* the keys of the theme cache are never removed
C22_KeysStay ==
    [][DOMAIN cache \subseteq DOMAIN cache']_vars

\* the entries of the first n places of the enumeration of task t that carry
\* another name than its exclude_date
NotExcludedUpTo(t, n) ==
    SelectSeq(SubSeq(tk[t].entries, 1, n),
              LAMBDA stem : tk[t].exclude \in {None, ""} \/ stem # tk[t].exclude)

\* the places of the enumeration that task t has gone through
PlacesDone(t) ==
    IF tk[t].pc = "scan" THEN tk[t].idx - 1
    ELSE IF tk[t].pc = "done" THEN Len(tk[t].entries)
    ELSE tk[t].idx

\* C23 (Spec): a find_related_entries that goes into its loop enumerates the
\* entries once; it reads the entries not excluded in the order of the
\* enumeration, each one once, all of them by its return; an entry is read
\* only when the call for the themes of the one before it has returned, and
\* while a backend call of the request is awaited the request neither reads
\* nor sends another one.
C23_SequentialScan ==
    /\ [](\A t \in Tasks :
            tk[t].op = "find" =>
              /\ tk[t].enums <= 1
              /\ tk[t].stage = "candidate" =>
                    /\ tk[t].enums = 1
                    /\ tk[t].reads = NotExcludedUpTo(t, PlacesDone(t))
              /\ \A i, j \in 1..Len(tk[t].reads) :
                    i # j => tk[t].reads[i] # tk[t].reads[j])
    /\ [][\A t \in Tasks :
            (tk[t].op = "find" /\ tk[t].pc \in {"lookup", "await", "scan"}) =>
              /\ tk'[t].reads # tk[t].reads =>
                    /\ tk[t].pc = "scan"
                    /\ tk'[t].reads = Append(tk[t].reads, tk[t].entries[tk[t].idx])
              /\ tk'[t].gens # tk[t].gens =>
                    /\ tk[t].pc = "lookup" /\ tk'[t].pc = "await"
                    /\ tk'[t].gens = tk[t].gens + 1
              /\ tk'[t].enums # tk[t].enums =>
                    tk[t].stage = "current" /\ tk'[t].stage = "candidate"
              /\ tk[t].pc = "await" =>
                    \/ tk'[t] = tk[t]
                    \/ tk'[t].pc \in {"scan", "done"} /\ tk'[t].reads = tk[t].reads]_vars

\* a request that has read three entries and sent a backend call for the
\* current text and for two of them
C23_Witness ==
    \E t \in Tasks :
        /\ FindDone(t)
        /\ tk[t].enums = 1
        /\ Len(tk[t].reads) = 3
        /\ Len(tk[t].cands) >= 2
        /\ tk[t].gens >= 3

\* the place i of the response s lies in a pair of markers: after a <think>
\* with no </think> between the two, and not after the last </think>
InThinkBlock(s, i) ==
    \E j \in 1..i, k \in i..Len(s) :
        /\ j < k
        /\ s[j] = "<think>" /\ s[k] = "</think>"
        /\ \A m \in (j + 1)..(i - 1) : s[m] # "</think>"

\* the response without its pairs of markers, what they enclose, and the
\* markers left alone
RECURSIVE OutsideThink(_, _)
OutsideThink(s, i) ==
    IF i > Len(s) THEN <<>>
    ELSE IF InThinkBlock(s, i) \/ s[i] \in {"<think>", "</think>"}
         THEN OutsideThink(s, i + 1)
         ELSE <<s[i]>> \o OutsideThink(s, i + 1)

\* the places b to e of the line are what it gives: the line holds no
\* commentary marker, begins (blanks aside) with a digit and a dot or with a
\* dash, b is the first place after the leading digits, dots, dashes and
\* blanks, e the last place that is no blank, and the part ends with "?" or
\* is longer than 20 characters
UsablePart(line, b, e) ==
    /\ \A i \in 1..Len(line) :
          line[i] \notin {"unresolved", "worth exploring", "here are", "**",
                          "topics:", "questions:"}
    /\ \E a \in 1..b :
          /\ \A i \in 1..(a - 1) : line[i] \in {" ", "\n"}
          /\ \/ a < b /\ line[a] \in {"0", "1", "2", "3", "4", "5", "6", "7", "8", "9"}
                /\ line[a + 1] = "."
             \/ line[a] = "-"
          /\ \A i \in a..(b - 1) :
                line[i] \in {"0", "1", "2", "3", "4", "5", "6", "7", "8", "9",
                             "-", ".", " ", "\n"}
    /\ line[b] \notin {"0", "1", "2", "3", "4", "5", "6", "7", "8", "9",
                       "-", ".", " ", "\n"}
    /\ line[e] \notin {" ", "\n"}
    /\ \A i \in (e + 1)..Len(line) : line[i] \in {" ", "\n"}
    /\ line[e] = "?" \/ TextLen(SubSeq(line, b, e)) > 20

\* C25 (SpecFn): every string generate_reflection_prompts returns is given
\* by a line of the response outside the paired <think>...</think> blocks:
\* a line without commentary marker, that begins with a number-dot or dash
\* list marker, the string being the line without that leading marker syntax,
\* not empty, ending with "?" or longer than 20 characters. A response without
\* such a line gives the empty list.
C25_PromptLineFilter ==
    (fn.op = "prompts" /\ fn.done) =>
        LET response_text == JoinLines(fn.lines)
            lines == SplitLines(OutsideThink(response_text, 1), <<>>)
        IN  /\ \A n \in 1..Len(fn.prompts) :
                  \E k \in 1..Len(lines) :
                     \E b \in 1..Len(lines[k]) : \E e \in b..Len(lines[k]) :
                        /\ UsablePart(lines[k], b, e)
                        /\ fn.prompts[n] = TextOf(SubSeq(lines[k], b, e))
            /\ (\A k \in 1..Len(lines) :
                   \A b \in 1..Len(lines[k]) : \A e \in b..Len(lines[k]) :
                      ~UsablePart(lines[k], b, e)) => fn.prompts = <<>>

\* a response with a line inside a pair of markers, a line after the closing
\* marker and a line that begins with two numbers
C25_Witness ==
    /\ fn.op = "prompts" /\ fn.done
    /\ fn.count = 3
    /\ fn.lines = << <<"<think>", "5", ".", " ", "f", "?">>,
                     <<"</think>", "5", ".", "g", "?">>,
                     <<"1", ".", " ", "2", " ", "h", "?">> >>
    /\ fn.prompts = <<"g?", "h?">>

\* C26 (SpecTemplate): every generate_template_content returns a template
\* with at least one prompt: the fixed prompts, five for a Sunday and three
\* for another day, when generate_reflection_prompts gave none, and otherwise
\* the generated prompts, at most five for a Sunday and three for another day.
C26_TemplateFallback ==
    \A t \in Tasks :
        (tk[t].op = "template" /\ tk[t].pc # "awaitPrompts") =>
            /\ tk[t].pc = "done"
            /\ LET written == tk[t].tool.template.prompts
                   most == IF tk[t].tool.sunday THEN 5 ELSE 3
               IN  /\ Len(written) >= 1
                   /\ Len(written) <= most
                   /\ tk[t].result = <<>> =>
                         /\ Len(written) = most
                         /\ written[1].text =
                               (IF tk[t].tool.sunday
                                THEN "What went well this week, and what felt hard?"
                                ELSE "What's on your mind right now?")
                   /\ tk[t].result # <<>> =>
                         /\ Len(written) = Len(tk[t].result)
                         /\ \A i \in 1..Len(written) :
                               written[i].text = tk[t].result[i]

\* the templates that are returned hold the fixed prompts or the generated
\* ones, within the count of the day
C26_ReturnedTemplates ==
    \A t \in Tasks :
        (tk[t].op = "template" /\ tk[t].pc = "done") =>
            LET written == tk[t].tool.template.prompts
                most == IF tk[t].tool.sunday THEN 5 ELSE 3
            IN  /\ Len(written) >= 1
                /\ Len(written) <= most
                /\ tk[t].result = <<>> => Len(written) = most
                /\ tk[t].result # <<>> =>
                      \A i \in 1..Len(written) : written[i].text = tk[t].result[i]

\* a Sunday template with five generated prompts
C26_FiveGenerated ==
    \E t \in Tasks :
        /\ tk[t].op = "template" /\ tk[t].pc = "done"
        /\ tk[t].tool.sunday
        /\ Len(tk[t].result) = 5

\* the Memory Links headings of a text
Headings(s) == {i \in 1..Len(s) : s[i] = "## Memory Links"}

\* C21 (SpecFn): add_memory_links removes the section appended before: for
\* every content, related and topic tags, adding the links a second time gives
\* what the first time gave, and the entry holds one Memory Links section.
C21_MemoryLinksIdempotent ==
    (fn.op = "links" /\ fn.done) =>
        /\ fn.twice = fn.once
        /\ Cardinality(Headings(fn.once)) = 1
        /\ Cardinality(Headings(fn.twice)) = 1

\* the first application gives the content without its old link section and
\* one Memory Links section
C21_OneSectionAfterFirst ==
    (fn.op = "links" /\ fn.done) => Cardinality(Headings(fn.once)) = 1

\* C21, for the tools of server.py (SpecTool): an entry that the tools have
\* updated holds at most one Memory Links section
C21_OneSectionAfterUpdates ==
    \A st \in Stems : Len(files[st].content.mem) <= 1

\* C27 (SpecStore): no step of a tool removes an entry; a file appears only
\* through create_diary_entry_file called for its date; and a call of
\* create_diary_entry_file for a date whose file exists returns the
\* "already exists" message at once and leaves every file as it is.
C27_CreateOnlyAbsentNeverDelete ==
    [][/\ \A st \in Stems :
             files[st].kind # "absent" => files'[st].kind # "absent"
       /\ \A st \in Stems :
             (files[st].kind = "absent" /\ files'[st].kind # "absent") =>
                \E t \in Tasks :
                   /\ tk'[t].tool.name = "create"
                   /\ tk'[t].tool.date = st
                   /\ tk'[t].tool.message = "Created intellectual diary entry"
       /\ \A t \in Tasks :
             (/\ started' = started + 1
              /\ tk'[t] # tk[t]
              /\ tk'[t].tool.name = "create"
              /\ tk'[t].tool.date \in Stems
              /\ files[tk'[t].tool.date].kind # "absent") =>
                /\ tk'[t].pc = "done"
                /\ tk'[t].tool.message = "already exists"
                /\ files' = files
       /\ \A t \in Tasks :
             (tk'[t].tool.name = "create" /\ tk'[t] # tk[t] /\ files' # files) =>
                /\ files[tk'[t].tool.date].kind = "absent"
                /\ \A st \in Stems \ {tk'[t].tool.date} : files'[st] = files[st]]_vars

\* create_diary_entry_file has created the entry of 2 January and, called
\* again for that date, has answered that it exists
C27_Witness ==
    \E t \in Tasks :
        /\ tk[t].tool.name = "create"
        /\ tk[t].tool.date = "2024-01-02"
        /\ tk[t].tool.message = "already exists"
        /\ files["2024-01-02"] \in {TextFile(FallbackTemplate), TextFile(GeneratedTemplate)}

\* refresh_recent_backlinks has returned to the caller of task t
RefreshReturned(t) ==
    /\ tk[t].tool.name = "refresh"
    /\ tk[t].pc = "done"
    /\ tk[t].tool.step = "returned"

\* the entries whose file differs from the file the call of task t found
RewrittenSince(t) == {st \in Stems : files[st] # tk[t].tool.before[st]}

\* C28 (SpecStore): when refresh_recent_backlinks returns, every entry
\* dated after the day `days` days before the call (2 January) has been gone
\* through once, and no other: each one is either
\* recorded once as an error or rewritten, never both; updated_count is the
\* number of entries rewritten, updated_count plus the number of errors is
\* the number of recent entries, and no other entry was rewritten. While it
\* runs, the loop goes forward one entry at a time whatever fails.
C28_RefreshAccounting ==
    /\ [](\A t \in Tasks :
            RefreshReturned(t) =>
              LET tool == tk[t].tool
                  recent == {st \in Stems : /\ tool.before[st].kind # "absent"
                                             /\ DateOf(st) + tool.days > 2}
              IN  /\ tool.updated_count + Len(tool.errors) = Len(tool.recent)
                  /\ Cardinality(RewrittenSince(t)) = tool.updated_count
                  /\ RewrittenSince(t) \cap Range(tool.errors) = {}
                  /\ RewrittenSince(t) \cup Range(tool.errors) = Range(tool.recent)
                  /\ \A i, j \in 1..Len(tool.errors) :
                        i # j => tool.errors[i] # tool.errors[j]
                  /\ \A i, j \in 1..Len(tool.recent) :
                        i # j => tool.recent[i] # tool.recent[j]
                  /\ Range(tool.recent) = recent)
    /\ [][\A t \in Tasks :
            (tk[t].tool.name = "refresh" /\ tk'[t].tool.name = "refresh"
               /\ tk[t].tool.step # "returned" /\ tk'[t] # tk[t]) =>
              /\ tk'[t].pc # "raised" \/ tk'[t].tool.step = "related"
              /\ tk'[t].tool.at >= tk[t].tool.at
              /\ tk'[t].tool.recent = tk[t].tool.recent
              /\ (files' # files) =>
                    /\ tk'[t].tool.updated_count = tk[t].tool.updated_count + 1
                    /\ tk'[t].tool.at > tk[t].tool.at
                    /\ \A st \in Stems \ {tk[t].tool.date} : files'[st] = files[st]]_vars

\* a call that has rewritten one entry and recorded an exception for the
\* other, both entries readable
C28_Witness ==
    \E t \in Tasks :
        /\ RefreshReturned(t)
        /\ tk[t].tool.before = JobCorpus
        /\ tk[t].tool.updated_count = 1
        /\ tk[t].tool.errors = <<"2024-01-01">>
        /\ files["2024-01-02"] # TextFile(JobB)
        /\ files["2024-01-01"] = TextFile(JobA)

\* C24 (SpecTrace): over a directory that does not change, with
\* find_related_entries called for entries of the directory under their own
\* name and generate_memory_trace called in any order, the backend is asked
\* at most once for the themes of an entry; once the themes of an entry are
\* in the cache, as current text or as candidate, every later call for it is
\* a hit.
C24_OneExtractionPerEntry ==
    /\ [](\A c \in DOMAIN genCalls : genCalls[c] <= 1)
    /\ [][\A t \in Tasks :
            (/\ tk[t].pc = "lookup"
             /\ tk'[t] # tk[t]
             /\ \E key \in DOMAIN cache :
                   cacheSrc[key] = [content |-> tk[t].pendC, id |-> tk[t].pendId])
               => /\ tk'[t].pc # "await"
                  /\ last'.hit
                  /\ genCalls' = genCalls]_vars

\* the second request is made for the entry of 2 January as current text:
\* its themes, extracted once by the request before, come from the cache, and
\* the request has sent nothing to the backend
C24_Witness ==
    \E t \in Tasks :
        /\ tk[t].op = "find" /\ tk[t].stage = "candidate"
        /\ tk[t].exclude = "2024-01-02"
        /\ files["2024-01-02"] = TextFile(LongA)
        /\ tk[t].cur = {"a", "b"}
        /\ tk[t].gens = 0
        /\ LongA \in DOMAIN genCalls /\ genCalls[LongA] = 1
        /\ started = 2
====
